---- MODULE Spec2Model ----
(***************************************************************************)
(* Capability execution engine and strategy orchestrator (aument core).    *)
(*                                                                         *)
(* The model follows StrategyExecutor (executeStrategy, resumeStrategy,    *)
(* executeFromState, findMissingOnDemandParams, mergeParameters,           *)
(* pauseForCollection, handleFailureWithRollback) and the part of          *)
(* Engine.execute the orchestrator depends on (intent validation,          *)
(* preconditions, handler outcome).  Handlers and precondition checkers    *)
(* are opaque host callables: their outcome is a nondeterministic choice.  *)
(*                                                                         *)
(* An async method runs synchronously up to its next `await`; each action  *)
(* below is one such synchronous segment of one call.                      *)
(***************************************************************************)
EXTENDS Integers, Sequences, FiniteSets, TLC

\* ------------------------------------------------------------------ bounds
MaxExec == 1          \* strategy executions started on one StrategyExecutor
MaxTokens == 3        \* resume tokens minted by one StrategyExecutor
MaxCaps == 2          \* capabilities of a manifest an Engine is constructed over

Execs == 1..MaxExec

\* generateResumeToken: `resume_${Date.now()}_${random}`, a string no earlier
\* call returned; the n-th token minted is modelled as the number n.  A token
\* no call has minted yet is represented by the number nextToken.
NoToken == 0

\* ------------------------------------------------------------------ values
\* JavaScript values of parameters.  "null" is the value null; an absent
\* (undefined) parameter is a name outside the DOMAIN of the map.
Null == "null"
StringValues == {"s1", "s2"}
NumberValues == {"n1"}
Values == StringValues \cup NumberValues \cup {Null}

EmptyMap == <<>>

\* { ...a, ...b }: keys of both, b's value where both define the key.
Spread(a, b) == [k \in (DOMAIN a) \cup (DOMAIN b) |-> IF k \in DOMAIN b THEN b[k] ELSE a[k]]

\* value === undefined || value === null
IsAbsent(m, k) == k \notin DOMAIN m \/ m[k] = Null

\* ---------------------------------------------------------------- manifest
Param(n, t, req, approach, sens) ==
    [name |-> n, type |-> t, isRequired |-> req, collectionApproach |-> approach, isSensitive |-> sens]

NoUndo == ""

Capability(id, params, undo, nPre, payload) ==
    [id |-> id, parameters |-> params, undoCapabilityId |-> undo, preconditions |-> nPre, payload |-> payload]

\* The manifest the engine was constructed over.  `preconditions` is the
\* number of declared preconditions, `payload` the nested data object the
\* capability's (successful) handler returns.
Manifest ==
    [addItem |-> Capability("addItem",
                    <<Param("itemId", "string", TRUE, "upfront", FALSE)>>,
                    "removeItem", 0, ("cartId" :> "s1")),
     removeItem |-> Capability("removeItem",
                    <<Param("itemId", "string", TRUE, "upfront", FALSE)>>,
                    NoUndo, 0, EmptyMap),
     logEvent |-> Capability("logEvent", <<>>, NoUndo, 1, ("cartId" :> "s2")),
     checkout |-> Capability("checkout",
                    <<Param("total", "number", TRUE, "upfront", FALSE),
                      Param("cvv", "string", TRUE, "on-demand", TRUE),
                      Param("coupon", "string", FALSE, "on-demand", FALSE),
                      Param("billingZip", "string", TRUE, "on-demand", FALSE)>>,
                    "cancelCheckout", 0, ("orderId" :> "s2")),
     cancelCheckout |-> Capability("cancelCheckout",
                    <<Param("total", "number", TRUE, "upfront", FALSE)>>,
                    NoUndo, 0, EmptyMap),
     getCart |-> Capability("getCart",
                    <<Param("cartId", "string", TRUE, "upfront", FALSE)>>,
                    NoUndo, 0, EmptyMap),
     auditOrder |-> Capability("auditOrder",
                    <<Param("orderId", "string", TRUE, "upfront", FALSE)>>,
                    NoUndo, 3, EmptyMap)]

NoCapability == Capability("", <<>>, NoUndo, 0, EmptyMap)

\* manifest.capabilities[capabilityId] || null
getCapability(capabilityId) ==
    IF capabilityId \in DOMAIN Manifest THEN Manifest[capabilityId] ELSE NoCapability

Intent(capId, params) == [capabilityId |-> capId, parameters |-> params]

\* ------------------------------------------------------------- validation
\* Messages are pairs <<text, subject>>; the source builds them by string
\* interpolation of the subject into the text.
Msg(text, subject) == <<text, subject>>

TypeOf(v) == IF v \in NumberValues THEN "number" ELSE IF v \in StringValues THEN "string" ELSE "null"

\* ParameterValidator.validateType for the declared types of the manifest
validateType(type, v) ==
    IF type = "string" THEN (IF TypeOf(v) = "string" THEN <<>> ELSE <<Msg("Must be a string", "")>>)
    ELSE IF type = "number" THEN (IF TypeOf(v) = "number" THEN <<>> ELSE <<Msg("Must be a number", "")>>)
    ELSE <<Msg("Unknown type", type)>>

\* ParameterValidator.validate: the errors of one parameter (no parameter of
\* the manifest declares a constraint validator)
validate(paramDef, m) ==
    IF paramDef.isRequired /\ IsAbsent(m, paramDef.name) THEN <<Msg("is required", paramDef.name)>>
    ELSE IF ~paramDef.isRequired /\ IsAbsent(m, paramDef.name) THEN <<>>
    ELSE validateType(paramDef.type, m[paramDef.name])

\* mutant: validation stops at the first parameter that has an error
validateAll_StopsAtFirst(paramDefs, m) ==
    LET invalid == {i \in 1..Len(paramDefs) : validate(paramDefs[i], m) # <<>>}
    IN IF invalid = {} THEN <<>>
       ELSE validate(paramDefs[CHOOSE i \in invalid : \A j \in invalid : i <= j], m)

\* ParameterValidator.validateAll: every parameter, errors concatenated
RECURSIVE validateAll(_, _)
validateAll(paramDefs, m) ==
    IF paramDefs = <<>> THEN <<>>
    ELSE validate(Head(paramDefs), m) \o validateAll(Tail(paramDefs), m)

\* ParameterValidationResult as validateAll returns it
ParameterValidationResult(allErrors) == [isValid |-> Len(allErrors) = 0, errors |-> allErrors]

\* A validateAll call: its arguments, and its result once it has returned.
ValidateAllCall(paramDefs, providedParams, at, result) ==
    [paramDefs |-> paramDefs, providedParams |-> providedParams, pc |-> at, result |-> result]

NoValidation == ValidateAllCall(<<>>, EmptyMap, "none", ParameterValidationResult(<<>>))

\* StrategyValidator.validateIntent for an intent object that has a
\* capability id and a parameters object
validateIntent(intent) ==
    IF intent.capabilityId \notin DOMAIN Manifest
    THEN <<Msg("not found in manifest", intent.capabilityId)>>
    ELSE validateAll(Manifest[intent.capabilityId].parameters, intent.parameters)

\* ------------------------------------------------------------------ engine
\* ExecutionResult.  `payload` is the nested data object of a successful
\* handler result ((result.data as any).data), empty when there is none.
ExecutionResult(ok, type, message, payload) ==
    [success |-> ok, type |-> type, message |-> message, payload |-> payload]

NoMsg == Msg("", "")

\* mutant: the engine dispatches without validating the intent
EngineResults_Unvalidated(intent) ==
    LET cap == getCapability(intent.capabilityId)
    IN {ExecutionResult(TRUE, "", NoMsg, cap.payload),
        ExecutionResult(FALSE, "EXECUTION_ERROR", Msg("Handler failed", cap.id), EmptyMap)}

\* Engine.execute: the results one dispatch of `intent` can return.
\* Validation is decided by the intent; the precondition checkers and the
\* handler are host callables, so each of their outcomes is possible.  A
\* handler that fails yields one failed result here: the orchestrator reads
\* a failed result's type only to tell PRECONDITION_FAILED from the rest.
EngineResults(intent) ==
    LET errors == validateIntent(intent)
        cap == getCapability(intent.capabilityId)
    IN IF errors # <<>>
       THEN {ExecutionResult(FALSE, "VALIDATION_ERROR", errors[1], EmptyMap)}
       ELSE (IF cap.preconditions > 0
             THEN {ExecutionResult(FALSE, "PRECONDITION_FAILED", Msg("Precondition not met", cap.id), EmptyMap)}
             ELSE {})
            \cup {ExecutionResult(TRUE, "", NoMsg, cap.payload),
                  ExecutionResult(FALSE, "EXECUTION_ERROR", Msg("Handler failed", cap.id), EmptyMap)}

\* The marker of a dispatch that throws instead of returning a result.
Thrown == ExecutionResult(FALSE, "THROWN", Msg("exception", ""), EmptyMap)

\* The marker of a dispatch that has not returned yet.
Pending == ExecutionResult(FALSE, "PENDING", NoMsg, EmptyMap)

\* ------------------------------------------------------------------ inputs
Options(transactional, continueOnError) ==
    [transactional |-> transactional, continueOnError |-> continueOnError]

AddItem1 == Intent("addItem", ("itemId" :> "s1"))
AddItem2 == Intent("addItem", ("itemId" :> "s2"))
LogEvent == Intent("logEvent", EmptyMap)
Checkout == Intent("checkout", ("total" :> "n1"))
CheckoutCvv == Intent("checkout", ("total" :> "n1") @@ ("cvv" :> "s1"))
Unknown == Intent("unknownCapability", EmptyMap)
GetCart == Intent("getCart", EmptyMap)

\* The strategies callers submit.
Strategies ==
    {<<AddItem1, AddItem2, LogEvent, Unknown>>,
     <<Checkout>>,
     <<LogEvent, AddItem1, CheckoutCvv>>,
     <<AddItem1, GetCart>>}

\* The values callers supply to resumeStrategy.
ResumeInputs ==
    {("cvv" :> "s2"),
     ("billingZip" :> "s1"),
     ("cvv" :> "s2") @@ ("billingZip" :> "s1"),
     ("cvv" :> "n1") @@ ("billingZip" :> "s1")}

\* ------------------------------------------------------------ orchestrator
VARIABLES
    pausedExecutions,   \* StrategyExecutor.pausedExecutions: token -> parked execution
    states,             \* the ExecutionState object of each execution
    pc,                 \* where the call running on each execution stands
    frame,              \* locals of that call across its pending await
    ret,                \* the StrategyResult last returned for each execution
    engineCalls,        \* per execution, the engine.execute calls made so far, each with its outcome
    nextToken,          \* number of the next token generateResumeToken mints
    lastResume,         \* the resumeStrategy call of the last step, if it was one: hit or miss, the token hit, the error code returned
    consumed,           \* the tokens a resumeStrategy call has hit so far
    capabilities,       \* Engine.manifest.capabilities: Object.values order, each with id, handlerRef, undoCapabilityId
    handlerRegistry,    \* HandlerRegistry.handlers: the registered handler references
    constructed,        \* how `new Engine(manifest, handlers)` ended: status and the missing references it named
    validation,         \* the ParameterValidator.validateAll call under study: its arguments and what it returned
    checkers,           \* PreconditionChecker.checkers: the registered checker references
    dispatch,           \* the Engine.execute call in progress: where it stands and its locals
    invocations,        \* the host callables that call has invoked so far, in order
    now,                \* Date.now()
    returned            \* the results that call has returned to its caller

orchestratorVars == <<pausedExecutions, states, pc, frame, ret, engineCalls, nextToken, lastResume, consumed>>

engineVars == <<capabilities, handlerRegistry, constructed, validation>>

dispatchVars == <<checkers, dispatch, invocations, now, returned>>

vars == <<pausedExecutions, states, pc, frame, ret, engineCalls, nextToken, lastResume, consumed,
          capabilities, handlerRegistry, constructed, validation, checkers, dispatch, invocations, now, returned>>

\* ------------------------------------------------------ engine construction
\* One entry of manifest.capabilities as the constructor reads it.
Binding(id, handlerRef, undoCapabilityId) ==
    [id |-> id, handlerRef |-> handlerRef, undoCapabilityId |-> undoCapabilityId]

\* cap.handler.handlerRef of the entries whose id is capId, in order
RECURSIVE refsOf(_, _)
refsOf(caps, capId) ==
    IF caps = <<>> THEN <<>>
    ELSE (IF Head(caps).id = capId THEN <<Head(caps).handlerRef>> ELSE <<>>) \o refsOf(Tail(caps), capId)

\* Engine.getHandlerRef: the first of them, "" when there is none
getHandlerRef(caps, capId) ==
    IF refsOf(caps, capId) = <<>> THEN "" ELSE refsOf(caps, capId)[1]

\* mutant: an undo id that resolves to no capability is passed over
missingOf_SkipsUnresolved(capability, caps, registry) ==
    (IF capability.handlerRef \notin registry THEN <<capability.handlerRef>> ELSE <<>>)
    \o (IF /\ capability.undoCapabilityId # NoUndo
            /\ getHandlerRef(caps, capability.undoCapabilityId) # ""
            /\ getHandlerRef(caps, capability.undoCapabilityId) \notin registry
        THEN <<getHandlerRef(caps, capability.undoCapabilityId)>> ELSE <<>>)

\* the body of validateHandlerBindings' loop: the references one capability
\* adds to missingHandlers
missingOf(capability, caps, registry) ==
    (IF capability.handlerRef \notin registry THEN <<capability.handlerRef>> ELSE <<>>)
    \o (IF /\ capability.undoCapabilityId # NoUndo
            /\ getHandlerRef(caps, capability.undoCapabilityId) \notin registry
        THEN <<getHandlerRef(caps, capability.undoCapabilityId)>> ELSE <<>>)

\* validateHandlerBindings' loop over the capabilities `rest` of `caps`
RECURSIVE missingHandlers(_, _, _)
missingHandlers(rest, caps, registry) ==
    IF rest = <<>> THEN <<>>
    ELSE missingOf(Head(rest), caps, registry) \o missingHandlers(Tail(rest), caps, registry)

NotConstructed == [status |-> "none", missing |-> <<>>]

\* Engine.validateHandlerBindings: returns, or throws naming what is missing
validateHandlerBindings(caps, registry) ==
    IF Len(missingHandlers(caps, caps, registry)) > 0
    THEN [status |-> "threw", missing |-> missingHandlers(caps, caps, registry)]
    ELSE [status |-> "ok", missing |-> <<>>]

\* The capability ids of the orchestrator's manifest, in Object.values order;
\* its handlers are registered under the capability ids.
ManifestIds ==
    <<"addItem", "removeItem", "logEvent", "checkout", "cancelCheckout", "getCart", "auditOrder">>

ManifestBindings ==
    [i \in 1..Len(ManifestIds) |->
        Binding(ManifestIds[i], ManifestIds[i], Manifest[ManifestIds[i]].undoCapabilityId)]

ManifestHandlers == {ManifestIds[i] : i \in 1..Len(ManifestIds)}

NoState ==
    [strategy |-> <<>>, currentIndex |-> 0, results |-> <<>>, accumulatedContext |-> EmptyMap,
     collectedParameters |-> <<>>, executedSteps |-> <<>>, options |-> Options(FALSE, FALSE)]

NoFrame ==
    [intent |-> Intent("", EmptyMap), code |-> "", message |-> NoMsg, i |-> 0, rollbackErrors |-> <<>>]

\* StrategyResult; kind is "none" before the first return and "threw" when
\* the call ended by an exception.  stepIndex is -1, resumeToken NoToken and
\* rolledBack FALSE where the source leaves the field out; rollbackErrors is
\* present exactly when rolledBack is.
StrategyResult(kind, st, code, message, stepIndex, completedSteps, requiredInputs, resumeToken, rolledBack, rollbackErrors) ==
    [kind |-> kind, success |-> (kind = "success"), results |-> st.results,
     code |-> code, message |-> message, stepIndex |-> stepIndex,
     completedSteps |-> completedSteps, paused |-> (kind = "paused"),
     requiredInputs |-> requiredInputs, resumeToken |-> resumeToken,
     rolledBack |-> rolledBack, rollbackErrors |-> rollbackErrors]

NoResult == StrategyResult("none", NoState, "", NoMsg, -1, 0, <<>>, NoToken, FALSE, <<>>)

\* state.collectedParameters.get(state.currentIndex); an index never set
\* reads as the empty object (the callers take `collectedParams || {}`)
collectedGet(st) ==
    IF st.currentIndex \in DOMAIN st.collectedParameters
    THEN st.collectedParameters[st.currentIndex]
    ELSE EmptyMap

\* Map.prototype.set
MapSet(m, k, v) == [x \in (DOMAIN m) \cup {k} |-> IF x = k THEN v ELSE m[x]]

ParameterRequest(capability, param) ==
    [capabilityId |-> capability.id, parameter |-> param.name, type |-> param.type,
     isSensitive |-> param.isSensitive]

\* the loop of findMissingOnDemandParams over capability.parameters
RECURSIVE missingLoop(_, _, _)
missingLoop(capability, params, allProvidedParams) ==
    IF params = <<>> THEN <<>>
    ELSE LET param == Head(params)
             rest == missingLoop(capability, Tail(params), allProvidedParams)
         IN IF param.collectionApproach = "on-demand" /\ param.isRequired
               /\ IsAbsent(allProvidedParams, param.name)
            THEN <<ParameterRequest(capability, param)>> \o rest
            ELSE rest

\* mutant: the collected values are not consulted
findMissingOnDemandParams_ProvidedOnly(capability, providedParams, collectedParams) ==
    missingLoop(capability, capability.parameters, providedParams)

\* mutant: nothing is ever reported missing
findMissingOnDemandParams_None(capability, providedParams, collectedParams) ==
    <<>>

findMissingOnDemandParams(capability, providedParams, collectedParams) ==
    missingLoop(capability, capability.parameters, Spread(providedParams, collectedParams))

\* mutant: the provided values win over the collected ones
mergeParameters_ProvidedWins(intent, collectedParams) ==
    [intent EXCEPT !.parameters = Spread(collectedParams, intent.parameters)]

mergeParameters(intent, collectedParams) ==
    IF DOMAIN collectedParams = {} THEN intent
    ELSE [intent EXCEPT !.parameters = Spread(intent.parameters, collectedParams)]

isNonCriticalError(result) ==
    result.type \in {"PRECONDITION_FAILED", "VALIDATION_WARNING"}

\* mutant: the failure path counts every result, like the other returns
CountSuccess_All(results) == Len(results)

\* state.results.filter(r => r.success).length
RECURSIVE CountSuccess(_)
CountSuccess(results) ==
    IF results = <<>> THEN 0
    ELSE (IF Head(results).success THEN 1 ELSE 0) + CountSuccess(Tail(results))

\* A configuration is what one synchronous segment of a call leaves behind:
\* the execution's state, where the call stands, its locals, the result it
\* returned (if it returned), the engine call it started (if any) and
\* whether it parked the state under a fresh token.
Conf(st, at, fr, result, calls, park) ==
    [state |-> st, pc |-> at, frame |-> fr, ret |-> result, calls |-> calls, park |-> park]

\* One engine.execute(intent, {context}) call: a step's dispatch (index is
\* the step index) or an undo's (index is the ledger position).  `abandoned`
\* follows the handler of a call that returned TIMEOUT: it is still "running"
\* when the call returns and may have "completed" later.
EngineCall(kind, index, intent, context) ==
    [kind |-> kind, index |-> index, intent |-> intent, context |-> context, result |-> Pending,
     abandoned |-> "no"]

\* mutant: the result of the pending call is never awaited
Settle_Lost(calls, result) == calls

\* the log once its pending (last) call has ended with `result`
Settle(calls, result) == [calls EXCEPT ![Len(calls)].result = result]

\* mutant: the pause returns its token without parking the state
pauseForCollection_NotParked(st, requiredInputs, resumeToken) ==
    Conf(st, "paused", NoFrame,
         StrategyResult("paused", st, "", NoMsg, -1, Len(st.results), requiredInputs, resumeToken, FALSE, <<>>),
         <<>>, FALSE)

\* pauseForCollection
pauseForCollection(st, requiredInputs, resumeToken) ==
    Conf(st, "paused", NoFrame,
         StrategyResult("paused", st, "", NoMsg, -1, Len(st.results), requiredInputs, resumeToken, FALSE, <<>>),
         <<>>, TRUE)

RollbackError(kind, capabilityId, message) == <<kind, capabilityId, message>>

\* mutant: a rollback that met errors reports the last of them as the
\* strategy's error
rollbackReturn_ReportsUndo(st, code, message, rollbackErrors) ==
    Conf(st, "done", NoFrame,
         StrategyResult("failed", st,
                        IF rollbackErrors = <<>> THEN code ELSE "ROLLBACK_FAILED",
                        IF rollbackErrors = <<>> THEN message ELSE rollbackErrors[Len(rollbackErrors)][3],
                        st.currentIndex, CountSuccess(st.results), <<>>, NoToken, TRUE, rollbackErrors),
         <<>>, FALSE)

\* the return statement that ends handleFailureWithRollback after the walk
rollbackReturn(st, code, message, rollbackErrors) ==
    Conf(st, "done", NoFrame,
         StrategyResult("failed", st, code, message, st.currentIndex, CountSuccess(st.results),
                        <<>>, NoToken, TRUE, rollbackErrors),
         <<>>, FALSE)

\* the undo intent of a ledger step
undoIntentOf(step) == Intent(step.capability.undoCapabilityId, step.intent.parameters)

\* where the walk starts: `let i = state.executedSteps.length - 1`
rollbackStart_Oldest(st) == 0

rollbackStart(st) == Len(st.executedSteps) - 1

RECURSIVE rollbackWalk(_, _, _, _, _)

\* mutant: a step without an undo ends the walk
noUndoStep_Break(st, code, message, i, rollbackErrors) ==
    rollbackReturn(st, code, message,
        Append(rollbackErrors, RollbackError("Cannot undo - no undoHandler defined", st.executedSteps[i + 1].capability.id, NoMsg)))

\* the walk at a ledger step whose capability declares no undo: push the
\* error and `continue`
noUndoStep(st, code, message, i, rollbackErrors) ==
    rollbackWalk(st, code, message, i - 1,
        Append(rollbackErrors, RollbackError("Cannot undo - no undoHandler defined", st.executedSteps[i + 1].capability.id, NoMsg)))

\* the reverse walk of handleFailureWithRollback from ledger position i up
\* to its next engine.execute (or to its end)
rollbackWalk(st, code, message, i, rollbackErrors) ==
    IF i < 0 THEN rollbackReturn(st, code, message, rollbackErrors)
    ELSE LET step == st.executedSteps[i + 1]
         IN IF step.capability.undoCapabilityId = NoUndo
            THEN noUndoStep(st, code, message, i, rollbackErrors)
            ELSE Conf(st, "undo",
                      [intent |-> undoIntentOf(step), code |-> code, message |-> message, i |-> i,
                       rollbackErrors |-> rollbackErrors],
                      NoResult,
                      <<EngineCall("undo", i, undoIntentOf(step), st.accumulatedContext)>>, FALSE)

\* mutant: the walk is started whatever the options and the ledger
handleFailureWithRollback_Always(st, code, message) ==
    rollbackWalk(st, code, message, rollbackStart(st), <<>>)

handleFailureWithRollback(st, code, message) ==
    IF ~st.options.transactional \/ Len(st.executedSteps) = 0
    THEN Conf(st, "done", NoFrame,
              StrategyResult("failed", st, code, message, st.currentIndex, CountSuccess(st.results),
                             <<>>, NoToken, FALSE, <<>>),
              <<>>, FALSE)
    ELSE rollbackWalk(st, code, message, rollbackStart(st), <<>>)

\* mutant: the capability is not resolved before the dispatch, an unknown
\* one is left to the engine
executeFromState_Unresolved(st, resumeToken) ==
    IF ~(st.currentIndex < Len(st.strategy))
    THEN Conf(st, "done", NoFrame,
              StrategyResult("success", st, "", NoMsg, -1, Len(st.results), <<>>, NoToken, FALSE, <<>>),
              <<>>, FALSE)
    ELSE LET intent == st.strategy[st.currentIndex + 1]
             capability == getCapability(intent.capabilityId)
             missingParams == findMissingOnDemandParams(capability, intent.parameters, collectedGet(st))
         IN IF Len(missingParams) > 0
            THEN pauseForCollection(st, missingParams, resumeToken)
            ELSE LET mergedIntent == mergeParameters(intent, collectedGet(st))
                 IN Conf(st, "dispatch", [NoFrame EXCEPT !.intent = mergedIntent], NoResult,
                         <<EngineCall("step", st.currentIndex, mergedIntent, st.accumulatedContext)>>, FALSE)

\* mutant: a step that does not validate is dispatched at once, before the
\* on-demand parameters are looked at
executeFromState_ValidatesFirst(st, resumeToken) ==
    IF ~(st.currentIndex < Len(st.strategy))
    THEN Conf(st, "done", NoFrame,
              StrategyResult("success", st, "", NoMsg, -1, Len(st.results), <<>>, NoToken, FALSE, <<>>),
              <<>>, FALSE)
    ELSE LET intent == st.strategy[st.currentIndex + 1]
             capability == getCapability(intent.capabilityId)
         IN IF capability = NoCapability
            THEN handleFailureWithRollback(st, "CAPABILITY_NOT_FOUND", Msg("Capability not found", intent.capabilityId))
            ELSE LET missingParams == findMissingOnDemandParams(capability, intent.parameters, collectedGet(st))
                     mergedIntent == mergeParameters(intent, collectedGet(st))
                     upfront == SelectSeq(capability.parameters, LAMBDA q : q.collectionApproach # "on-demand")
                 IN IF Len(missingParams) > 0 /\ validateAll(upfront, mergedIntent.parameters) = <<>>
                    THEN pauseForCollection(st, missingParams, resumeToken)
                    ELSE Conf(st, "dispatch", [NoFrame EXCEPT !.intent = mergedIntent], NoResult,
                              <<EngineCall("step", st.currentIndex, mergedIntent, st.accumulatedContext)>>, FALSE)

\* executeFromState from the head of its loop up to its next engine.execute
\* (or to its return); resumeToken is what generateResumeToken would mint.
executeFromState(st, resumeToken) ==
    IF ~(st.currentIndex < Len(st.strategy))
    THEN Conf(st, "done", NoFrame,
              StrategyResult("success", st, "", NoMsg, -1, Len(st.results), <<>>, NoToken, FALSE, <<>>),
              <<>>, FALSE)
    ELSE LET intent == st.strategy[st.currentIndex + 1]
             capability == getCapability(intent.capabilityId)
         IN IF capability = NoCapability
            THEN handleFailureWithRollback(st, "CAPABILITY_NOT_FOUND", Msg("Capability not found", intent.capabilityId))
            ELSE LET missingParams == findMissingOnDemandParams(capability, intent.parameters, collectedGet(st))
                 IN IF Len(missingParams) > 0
                    THEN pauseForCollection(st, missingParams, resumeToken)
                    ELSE LET mergedIntent == mergeParameters(intent, collectedGet(st))
                         IN Conf(st, "dispatch", [NoFrame EXCEPT !.intent = mergedIntent], NoResult,
                                 <<EngineCall("step", st.currentIndex, mergedIntent, st.accumulatedContext)>>, FALSE)

\* mutant: keys already in the context keep their values
foldContext_EarlierWins(context, result) == Spread(result.payload, context)

\* {...state.accumulatedContext, ...(result.data as any).data}
foldContext(context, result) == Spread(context, result.payload)

\* mutant: a skipped step is recorded in the ledger like a completed one
afterDispatch_RecordsSkipped(st, mergedIntent, result, resumeToken) ==
    LET st1 == [st EXCEPT !.results = Append(@, result)]
        st2 == [st1 EXCEPT !.executedSteps = Append(@, [intent |-> mergedIntent, result |-> result,
                                                         capability |-> getCapability(mergedIntent.capabilityId)]),
                           !.accumulatedContext = Spread(@, result.payload),
                           !.currentIndex = @ + 1]
    IN IF ~result.success
       THEN IF st.options.continueOnError /\ isNonCriticalError(result)
            THEN executeFromState(st2, resumeToken)
            ELSE handleFailureWithRollback(st1,
                     IF result.type = "" THEN "EXECUTION_ERROR" ELSE result.type,
                     IF result.message = NoMsg THEN Msg("Intent execution failed", "") ELSE result.message)
       ELSE executeFromState(st2, resumeToken)

\* mutant: a skipped step is tried again
afterDispatch_RetriesSkipped(st, mergedIntent, result, resumeToken) ==
    LET st1 == [st EXCEPT !.results = Append(@, result)]
    IN IF ~result.success
       THEN IF st.options.continueOnError /\ isNonCriticalError(result)
            THEN executeFromState(st1, resumeToken)
            ELSE handleFailureWithRollback(st1,
                     IF result.type = "" THEN "EXECUTION_ERROR" ELSE result.type,
                     IF result.message = NoMsg THEN Msg("Intent execution failed", "") ELSE result.message)
       ELSE executeFromState(
                [st1 EXCEPT !.executedSteps = Append(@, [intent |-> mergedIntent, result |-> result,
                                                         capability |-> getCapability(mergedIntent.capabilityId)]),
                            !.accumulatedContext = Spread(@, result.payload),
                            !.currentIndex = @ + 1],
                resumeToken)

\* mutant: a skipped step leaves no result behind
afterDispatch_SkippedNotRecorded(st, mergedIntent, result, resumeToken) ==
    LET st1 == [st EXCEPT !.results = Append(@, result)]
    IN IF ~result.success
       THEN IF st.options.continueOnError /\ isNonCriticalError(result)
            THEN executeFromState([st EXCEPT !.currentIndex = @ + 1], resumeToken)
            ELSE handleFailureWithRollback(st1,
                     IF result.type = "" THEN "EXECUTION_ERROR" ELSE result.type,
                     IF result.message = NoMsg THEN Msg("Intent execution failed", "") ELSE result.message)
       ELSE executeFromState(
                [st1 EXCEPT !.executedSteps = Append(@, [intent |-> mergedIntent, result |-> result,
                                                         capability |-> getCapability(mergedIntent.capabilityId)]),
                            !.accumulatedContext = Spread(@, result.payload),
                            !.currentIndex = @ + 1],
                resumeToken)

\* mutant: the step that failed is in the ledger when the rollback starts
afterDispatch_RecordsFailed(st, mergedIntent, result, resumeToken) ==
    LET st1 == [st EXCEPT !.results = Append(@, result)]
        entry == [intent |-> mergedIntent, result |-> result,
                  capability |-> getCapability(mergedIntent.capabilityId)]
    IN IF ~result.success
       THEN IF st.options.continueOnError /\ isNonCriticalError(result)
            THEN executeFromState([st1 EXCEPT !.currentIndex = @ + 1], resumeToken)
            ELSE handleFailureWithRollback([st1 EXCEPT !.executedSteps = Append(@, entry)],
                     IF result.type = "" THEN "EXECUTION_ERROR" ELSE result.type,
                     IF result.message = NoMsg THEN Msg("Intent execution failed", "") ELSE result.message)
       ELSE executeFromState(
                [st1 EXCEPT !.executedSteps = Append(@, entry),
                            !.accumulatedContext = Spread(@, result.payload),
                            !.currentIndex = @ + 1],
                resumeToken)

\* mutant: every failed step is skipped and the loop goes on
afterDispatch_GoesOn(st, mergedIntent, result, resumeToken) ==
    LET st1 == [st EXCEPT !.results = Append(@, result)]
    IN IF ~result.success
       THEN executeFromState([st1 EXCEPT !.currentIndex = @ + 1], resumeToken)
       ELSE executeFromState(
                [st1 EXCEPT !.executedSteps = Append(@, [intent |-> mergedIntent, result |-> result,
                                                         capability |-> getCapability(mergedIntent.capabilityId)]),
                            !.accumulatedContext = Spread(@, result.payload),
                            !.currentIndex = @ + 1],
                resumeToken)

\* executeFromState from the return of engine.execute with `result`
afterDispatch(st, mergedIntent, result, resumeToken) ==
    LET st1 == [st EXCEPT !.results = Append(@, result)]
    IN IF ~result.success
       THEN IF st.options.continueOnError /\ isNonCriticalError(result)
            THEN executeFromState([st1 EXCEPT !.currentIndex = @ + 1], resumeToken)
            ELSE handleFailureWithRollback(st1,
                     IF result.type = "" THEN "EXECUTION_ERROR" ELSE result.type,
                     IF result.message = NoMsg THEN Msg("Intent execution failed", "") ELSE result.message)
       ELSE executeFromState(
                [st1 EXCEPT !.executedSteps = Append(@, [intent |-> mergedIntent, result |-> result,
                                                         capability |-> getCapability(mergedIntent.capabilityId)]),
                            !.accumulatedContext = foldContext(@, result),
                            !.currentIndex = @ + 1],
                resumeToken)

\* mutant: a failing undo is recorded and the walk goes on (best effort)
afterUndo_Continue(st, fr, undoResult) ==
    IF undoResult = Thrown \/ ~undoResult.success
    THEN rollbackWalk(st, fr.code, fr.message, fr.i - 1,
             Append(fr.rollbackErrors, RollbackError("Failed to undo", st.executedSteps[fr.i + 1].capability.id, undoResult.message)))
    ELSE rollbackWalk(st, fr.code, fr.message, fr.i - 1, fr.rollbackErrors)

\* handleFailureWithRollback from the return of the undo's engine.execute
afterUndo(st, fr, undoResult) ==
    LET step == st.executedSteps[fr.i + 1]
    IN IF undoResult = Thrown
       THEN rollbackReturn(st, fr.code, fr.message,
                Append(fr.rollbackErrors, RollbackError("Exception during undo", step.capability.id, undoResult.message)))
       ELSE IF ~undoResult.success
       THEN rollbackReturn(st, fr.code, fr.message,
                Append(fr.rollbackErrors, RollbackError("Failed to undo", step.capability.id, undoResult.message)))
       ELSE rollbackWalk(st, fr.code, fr.message, fr.i - 1, fr.rollbackErrors)

\* ---------------------------------------------------------- single dispatch
\* Engine.execute, PreconditionChecker and HandlerExecutor for one call.

\* The value a caller passes as `intent`: null, a primitive, or an object.
\* capabilityId "" is an absent (or empty) id; parametersKind tells what the
\* object's `parameters` is: an object, an array, a primitive, or absent.
\* parameters are the named properties read off it (none for an empty array).
JsIntent(shape, capId, parametersKind, params) ==
    [shape |-> shape, capabilityId |-> capId, parametersKind |-> parametersKind, parameters |-> params]

\* !(!intent.parameters || typeof intent.parameters !== 'object'): typeof
\* of an array is 'object'
isParametersObject(x) == x.parametersKind \in {"object", "array"}

\* StrategyValidator.validate([intent], manifest): the errors of the one
\* intent, structural checks first
strategyValidate(x) ==
    IF x.shape # "object" THEN <<Msg("Intent must be an object", "")>>
    ELSE IF x.capabilityId = "" THEN <<Msg("Intent missing capabilityId", "")>>
    ELSE IF ~isParametersObject(x) THEN <<Msg("Intent missing or invalid parameters object", "")>>
    ELSE validateIntent(Intent(x.capabilityId, x.parameters))

\* The checker references of the declared preconditions, in declaration order.
CheckerRefs == [k \in 1..3 |-> <<"check.1", "check.2", "check.3">>[k]]

\* capability.preconditions: the k-th names checker CheckerRefs[k] and carries
\* its own errorMessage
Preconditions(capability) ==
    [k \in 1..capability.preconditions |->
        [checkerRef |-> CheckerRefs[k], errorMessage |-> Msg("Precondition not met", CheckerRefs[k])]]

\* The result of one Engine.execute call.  executionTime is -1 where the
\* formatter leaves the field out; data is the handler's value, "" if none.
DispatchResult(ok, type, message, data, executionTime) ==
    [success |-> ok, type |-> type, message |-> message, data |-> data, executionTime |-> executionTime]

\* ResultFormatter.formatError / formatValidationError / formatPreconditionFailure
formatError(type, message) == DispatchResult(FALSE, type, message, "", -1)

\* What a handler does when invoked: it completes within the call (sync) or
\* returns a promise that settles later (async), after d time units, with a
\* value, an Error, an Error whose message contains "timeout", or a thrown
\* value that is not an Error; or it returns a promise that never settles.
Behaviour(mode, d, ending) == [mode |-> mode, d |-> d, ending |-> ending]

NoBehaviour == Behaviour("none", 0, "value")

HandlerValue == "value"

\* error.message of what the handler threw
thrownMessage(ending) ==
    IF ending = "error" THEN Msg("boom", "")
    ELSE IF ending = "errorTimeoutText" THEN Msg("connection timeout", "")
    ELSE Msg("not an Error", "")

\* the rejection of timeoutPromise
timeoutMessage(timeout) == Msg("Handler execution timeout after ms", ToString(timeout))

\* message.includes('timeout'), over the message texts of the model
includesTimeout(message) == message[1] \in {"Handler execution timeout after ms", "connection timeout"}

\* HandlerExecutionResult
HandlerExecutionResult(ok, data, message, isTimeout, executionTime) ==
    [success |-> ok, data |-> data, message |-> message, isTimeout |-> isTimeout, executionTime |-> executionTime]

\* HandlerExecutor.execute's catch block: `error` is an Error with `message`
\* or some other thrown value
catchError(isError, message, executionTime) ==
    HandlerExecutionResult(FALSE, "",
        IF isError THEN message ELSE Msg("Unknown error during handler execution", ""),
        isError /\ includesTimeout(message), executionTime)

\* ResultFormatter.formatSuccess / formatHandlerError over the executor's result
formatHandlerResult(handlerResult) ==
    IF handlerResult.success
    THEN DispatchResult(TRUE, "", NoMsg, handlerResult.data, handlerResult.executionTime)
    ELSE DispatchResult(FALSE, IF handlerResult.isTimeout THEN "TIMEOUT" ELSE "EXECUTION_ERROR",
                        IF handlerResult.message = NoMsg THEN Msg("Handler execution failed", "") ELSE handlerResult.message,
                        "", handlerResult.executionTime)

\* One call of a host callable, as the call in progress has made it.  A
\* checker's outcome is "pending" until it returns.
Invocation(kind, ref, outcome) == [kind |-> kind, ref |-> ref, outcome |-> outcome]

\* The Engine.execute call in progress: where it is, its arguments, the
\* precondition it is awaiting, the invoked handler's behaviour, startTime,
\* the timeout timer and whether the handler's promise is still unsettled.
NoDispatch ==
    [pc |-> "idle", intent |-> JsIntent("object", "", "absent", EmptyMap), timeout |-> 0, k |-> 0,
     behaviour |-> NoBehaviour, start |-> 0, timer |-> "unset", inflight |-> FALSE]

\* The call's state with what it has invoked and returned, and the clock.
DispatchConf(d, inv, out, t) == [dispatch |-> d, invocations |-> inv, returned |-> out, now |-> t]

\* `return result` of Engine.execute
finish(c, result) == [c EXCEPT !.dispatch.pc = "returned", !.returned = Append(@, result)]

\* capability.handler.handlerRef
handlerRefOf(caps, capabilityId) ==
    caps[CHOOSE i \in 1..Len(caps) : caps[i].id = capabilityId].handlerRef

\* How the race ends when the handler settles first, or completes within the
\* call: the try block's return or the catch block
settled(b, executionTime) ==
    IF b.ending = "value"
    THEN HandlerExecutionResult(TRUE, HandlerValue, NoMsg, FALSE, executionTime)
    ELSE catchError(b.ending # "nonError", thrownMessage(b.ending), executionTime)

\* HandlerExecutor.execute up to its await: startTime, the timer, the call of
\* the handler.  A handler that completes within the call takes b.d on the
\* clock and has won the race when the await resumes.
handlerExecute(c, ref, b) ==
    LET c1 == [c EXCEPT !.invocations = Append(@, Invocation("handler", ref, b.ending)),
                        !.dispatch.start = c.now,
                        !.dispatch.behaviour = b]
    IN  IF b.mode = "sync"
        THEN finish([c1 EXCEPT !.now = c.now + b.d, !.dispatch.timer = "cleared"],
                    formatHandlerResult(settled(b, b.d)))
        ELSE [c1 EXCEPT !.dispatch.pc = "racing", !.dispatch.timer = "armed", !.dispatch.inflight = TRUE]

\* Engine.execute from the handler lookup on
dispatchHandler(c, caps, registry, b) ==
    LET ref == handlerRefOf(caps, c.dispatch.intent.capabilityId)
    IN  IF ref \notin registry
        THEN finish(c, formatError("HANDLER_NOT_FOUND", Msg("Handler not registered", ref)))
        ELSE handlerExecute(c, ref, b)

\* mutant: a precondition whose checker is not registered is skipped
checkAll_SkipsUnregistered(c, k, caps, chk, registry, b) ==
    LET pre == Preconditions(Manifest[c.dispatch.intent.capabilityId])
        next == IF k <= Len(pre) /\ pre[k].checkerRef \notin chk THEN k + 1 ELSE k
    IN  IF next > Len(pre) THEN dispatchHandler(c, caps, registry, b)
        ELSE IF pre[next].checkerRef \notin chk
        THEN finish(c, formatError("PRECONDITION_FAILED",
                                   Msg("Precondition checker not found", pre[next].checkerRef)))
        ELSE [c EXCEPT !.dispatch.pc = "checking", !.dispatch.k = next,
                       !.invocations = Append(@, Invocation("checker", pre[next].checkerRef, "pending"))]

\* PreconditionChecker.checkAll from the k-th precondition on, up to the
\* await of a registered checker; past the last one the call goes on to the
\* handler
checkAll(c, k, caps, chk, registry, b) ==
    LET pre == Preconditions(Manifest[c.dispatch.intent.capabilityId])
    IN  IF k > Len(pre) THEN dispatchHandler(c, caps, registry, b)
        ELSE IF pre[k].checkerRef \notin chk
        THEN finish(c, formatError("PRECONDITION_FAILED",
                                   Msg("Precondition checker not found", pre[k].checkerRef)))
        ELSE [c EXCEPT !.dispatch.pc = "checking", !.dispatch.k = k,
                       !.invocations = Append(@, Invocation("checker", pre[k].checkerRef, "pending"))]

\* mutant: an exception of the checker escapes checkOne and the dispatch
checkOne_Propagates(c, outcome, caps, chk, registry, b) ==
    LET pre == Preconditions(Manifest[c.dispatch.intent.capabilityId])
        k == c.dispatch.k
        c1 == [c EXCEPT !.invocations[Len(c.invocations)].outcome = outcome]
    IN  IF outcome = "true" THEN checkAll(c1, k + 1, caps, chk, registry, b)
        ELSE IF outcome = "false"
        THEN finish(c1, formatError("PRECONDITION_FAILED", pre[k].errorMessage))
        ELSE [c1 EXCEPT !.dispatch.pc = "threw"]

\* mutant: the loop goes on to the next precondition whatever the checker
\* returned
checkOne_IgnoresOutcome(c, outcome, caps, chk, registry, b) ==
    checkAll([c EXCEPT !.invocations[Len(c.invocations)].outcome = outcome],
             c.dispatch.k + 1, caps, chk, registry, b)

\* PreconditionChecker.checkOne after its checker returned (true, false) or
\* threw
checkOne(c, outcome, caps, chk, registry, b) ==
    LET pre == Preconditions(Manifest[c.dispatch.intent.capabilityId])
        k == c.dispatch.k
        c1 == [c EXCEPT !.invocations[Len(c.invocations)].outcome = outcome]
    IN  IF outcome = "true" THEN checkAll(c1, k + 1, caps, chk, registry, b)
        ELSE IF outcome = "false"
        THEN finish(c1, formatError("PRECONDITION_FAILED", pre[k].errorMessage))
        ELSE finish(c1, formatError("PRECONDITION_FAILED",
                                    Msg("Precondition check failed", pre[k].checkerRef)))

\* Engine.execute up to its first await.  Reading intent.capabilityId of null
\* for the validation error throws a TypeError.
execute(x, timeout, caps, chk, registry, b) ==
    LET c0 == DispatchConf([NoDispatch EXCEPT !.intent = x, !.timeout = timeout], <<>>, <<>>, 0)
        errors == strategyValidate(x)
    IN  IF Len(errors) > 0
        THEN IF x.shape = "null" THEN [c0 EXCEPT !.dispatch.pc = "threw"]
             ELSE finish(c0, formatError("VALIDATION_ERROR", errors[1]))
        ELSE checkAll(c0, 1, caps, chk, registry, b)

\* ----------------------------------------------------------------- actions
NoResume == [token |-> NoToken, hit |-> FALSE, code |-> "", spent |-> FALSE]

Init ==
    /\ pausedExecutions = <<>>
    /\ states = [e \in Execs |-> NoState]
    /\ pc = [e \in Execs |-> "idle"]
    /\ frame = [e \in Execs |-> NoFrame]
    /\ ret = [e \in Execs |-> NoResult]
    /\ engineCalls = [e \in Execs |-> <<>>]
    /\ nextToken = 1
    /\ lastResume = NoResume
    /\ consumed = {}
    /\ capabilities = ManifestBindings
    /\ handlerRegistry = ManifestHandlers
    /\ constructed = validateHandlerBindings(ManifestBindings, ManifestHandlers)
    /\ validation = NoValidation
    /\ checkers = {}
    /\ dispatch = NoDispatch
    /\ invocations = <<>>
    /\ now = 0
    /\ returned = <<>>

\* A call that is awaiting a step's dispatch can still pause once; a new call
\* starts only while the token bound leaves a token for each of them.
TokenBudget ==
    nextToken + Cardinality({e \in Execs : pc[e] = "dispatch"}) <= MaxTokens

\* Install the configuration a segment of the call on execution e left,
\* over the parked-state table `table` and the execution's call log `calls`.
Apply(e, conf, table, calls) ==
    /\ states' = [states EXCEPT ![e] = conf.state]
    /\ pc' = [pc EXCEPT ![e] = conf.pc]
    /\ frame' = [frame EXCEPT ![e] = conf.frame]
    /\ ret' = [ret EXCEPT ![e] = conf.ret]
    /\ engineCalls' = [engineCalls EXCEPT ![e] = calls \o conf.calls]
    /\ pausedExecutions' = IF conf.park THEN MapSet(table, nextToken, e) ELSE table
    /\ nextToken' = IF conf.park THEN nextToken + 1 ELSE nextToken

\* executeStrategy(strategy, options)
ExecuteStrategy(strategy, options) ==
    /\ TokenBudget
    /\ \E e \in Execs :
        /\ pc[e] = "idle"
        /\ \A d \in Execs : d < e => pc[d] # "idle"
        /\ Apply(e, executeFromState([NoState EXCEPT !.strategy = strategy, !.options = options], nextToken),
                 pausedExecutions, engineCalls[e])
    /\ lastResume' = NoResume
    /\ UNCHANGED consumed
    /\ UNCHANGED engineVars
    /\ UNCHANGED dispatchVars

\* Map.prototype.delete
MapDelete(m, k) == [x \in (DOMAIN m) \ {k} |-> m[x]]

\* mutant: the token stays in the table
forgetToken_Keep(table, resumeToken) == table

\* this.pausedExecutions.delete(resumeToken)
forgetToken(table, resumeToken) == MapDelete(table, resumeToken)

\* mutant: the resumed execution starts over from its first step
collect_Restart(st, additionalParams) ==
    [st EXCEPT !.collectedParameters = MapSet(@, st.currentIndex, additionalParams), !.currentIndex = 0]

\* mutant: the resumed execution has lost its ledger and accumulated context
collect_Forgetful(st, additionalParams) ==
    [st EXCEPT !.collectedParameters = MapSet(@, st.currentIndex, additionalParams),
               !.executedSteps = <<>>, !.accumulatedContext = EmptyMap]

\* state.collectedParameters.set(state.currentIndex, additionalParams)
collect(st, additionalParams) ==
    [st EXCEPT !.collectedParameters = MapSet(@, st.currentIndex, additionalParams)]

\* mutant: the token is deleted only once executeFromState has come back, so
\* it is still in the table while the resumed call awaits a dispatch
ResumeStrategy_DeletesAfterAwait(resumeToken, additionalParams) ==
    /\ resumeToken \in DOMAIN pausedExecutions
    /\ TokenBudget
    /\ LET e == pausedExecutions[resumeToken]
           conf == executeFromState(collect(states[e], additionalParams), nextToken)
       IN Apply(e, conf,
                IF conf.pc = "dispatch" THEN pausedExecutions ELSE forgetToken(pausedExecutions, resumeToken),
                engineCalls[e])
    /\ lastResume' = [token |-> resumeToken, hit |-> TRUE, code |-> "", spent |-> resumeToken \in consumed]
    /\ consumed' = consumed \cup {resumeToken}
    /\ UNCHANGED engineVars
    /\ UNCHANGED dispatchVars

\* resumeStrategy(resumeToken, additionalParams) with a token that is in the
\* parked-state table
ResumeStrategy(resumeToken, additionalParams) ==
    /\ resumeToken \in DOMAIN pausedExecutions
    /\ TokenBudget
    /\ LET e == pausedExecutions[resumeToken]
       IN Apply(e, executeFromState(collect(states[e], additionalParams), nextToken),
                forgetToken(pausedExecutions, resumeToken), engineCalls[e])
    /\ lastResume' = [token |-> resumeToken, hit |-> TRUE, code |-> "", spent |-> resumeToken \in consumed]
    /\ consumed' = consumed \cup {resumeToken}
    /\ UNCHANGED engineVars
    /\ UNCHANGED dispatchVars

\* mutant: a miss drops the parked executions
ResumeUnknown_Clears(resumeToken) ==
    /\ resumeToken \notin DOMAIN pausedExecutions
    /\ lastResume' = [token |-> NoToken, hit |-> FALSE, code |-> "INVALID_RESUME_TOKEN",
                      spent |-> resumeToken \in consumed]
    /\ pausedExecutions' = <<>>
    /\ UNCHANGED <<states, pc, frame, ret, engineCalls, nextToken, consumed>>
    /\ UNCHANGED engineVars
    /\ UNCHANGED dispatchVars

\* resumeStrategy(resumeToken, _) with a token that is not in the table; the
\* supplied values are not read on this path
ResumeUnknown(resumeToken) ==
    /\ resumeToken \notin DOMAIN pausedExecutions
    /\ lastResume' = [token |-> NoToken, hit |-> FALSE, code |-> "INVALID_RESUME_TOKEN",
                      spent |-> resumeToken \in consumed]
    /\ UNCHANGED <<pausedExecutions, states, pc, frame, ret, engineCalls, nextToken, consumed>>
    /\ UNCHANGED engineVars
    /\ UNCHANGED dispatchVars

\* engine.execute of a step returns `result` (or throws) to executeFromState
StepReturns(e, result) ==
    /\ pc[e] = "dispatch"
    /\ IF result = Thrown
       THEN /\ pc' = [pc EXCEPT ![e] = "threw"]
            /\ frame' = [frame EXCEPT ![e] = NoFrame]
            /\ ret' = [ret EXCEPT ![e] = [NoResult EXCEPT !.kind = "threw"]]
            /\ engineCalls' = [engineCalls EXCEPT ![e] = Settle(@, Thrown)]
            /\ UNCHANGED <<states, pausedExecutions, nextToken>>
       ELSE /\ result \in EngineResults(frame[e].intent)
            /\ Apply(e, afterDispatch(states[e], frame[e].intent, result, nextToken), pausedExecutions,
                     Settle(engineCalls[e], result))
    /\ lastResume' = NoResume
    /\ UNCHANGED consumed
    /\ UNCHANGED engineVars
    /\ UNCHANGED dispatchVars

\* engine.execute of an undo returns `undoResult` (or throws) to
\* handleFailureWithRollback
UndoReturns(e, undoResult) ==
    /\ pc[e] = "undo"
    /\ undoResult = Thrown \/ undoResult \in EngineResults(frame[e].intent)
    /\ Apply(e, afterUndo(states[e], frame[e], undoResult), pausedExecutions,
             Settle(engineCalls[e], undoResult))
    /\ lastResume' = NoResume
    /\ UNCHANGED consumed
    /\ UNCHANGED engineVars
    /\ UNCHANGED dispatchVars

AllOptions == {Options(t, c) : t \in BOOLEAN, c \in BOOLEAN}

\* the token resumeStrategy misses with: the miss path reads the token only
\* through pausedExecutions.get, so one token stands for all that are not in
\* the table, an already consumed one once there is one and a never minted
\* one before
UnknownTokens ==
    IF consumed = {} THEN {nextToken} ELSE {CHOOSE t \in consumed : TRUE}

\* every result a dispatch can deliver
AllResults ==
    {Thrown} \cup UNION {EngineResults(frame[e].intent) : e \in {x \in Execs : pc[x] \in {"dispatch", "undo"}}}

Next ==
    \/ \E strategy \in Strategies, options \in AllOptions : ExecuteStrategy(strategy, options)
    \/ \E resumeToken \in DOMAIN pausedExecutions, additionalParams \in ResumeInputs : ResumeStrategy(resumeToken, additionalParams)
    \/ \E resumeToken \in UnknownTokens : ResumeUnknown(resumeToken)
    \/ \E e \in Execs, result \in AllResults : StepReturns(e, result)
    \/ \E e \in Execs, undoResult \in AllResults : UndoReturns(e, undoResult)

Spec == Init /\ [][Next]_vars

\* ------------------------------------------- engine construction, as a system
\* The manifests and handler maps an Engine is constructed over: MaxCaps
\* capabilities with distinct ids, each bound to one of MaxCaps handler
\* references and declaring no undo, the id of a capability, or an id no
\* capability has.
CapIds == [i \in 1..4 |-> <<"capA", "capB", "capC", "capD">>[i]]

HandlerRefs == [i \in 1..4 |-> <<"h.a", "h.b", "h.c", "h.d">>[i]]

GhostId == "ghost"

UndoIds == {NoUndo, GhostId} \cup {CapIds[i] : i \in 1..MaxCaps}

CandidateManifests ==
    {[i \in 1..MaxCaps |-> Binding(CapIds[i], r[i], u[i])] :
        r \in [1..MaxCaps -> {HandlerRefs[i] : i \in 1..MaxCaps}], u \in [1..MaxCaps -> UndoIds]}

HandlerMaps == SUBSET {HandlerRefs[i] : i \in 1..MaxCaps}

EngineInit ==
    /\ pausedExecutions = <<>>
    /\ states = [e \in Execs |-> NoState]
    /\ pc = [e \in Execs |-> "idle"]
    /\ frame = [e \in Execs |-> NoFrame]
    /\ ret = [e \in Execs |-> NoResult]
    /\ engineCalls = [e \in Execs |-> <<>>]
    /\ nextToken = 1
    /\ lastResume = NoResume
    /\ consumed = {}
    /\ capabilities \in CandidateManifests
    /\ handlerRegistry = {}
    /\ constructed = NotConstructed
    /\ validation = NoValidation
    /\ checkers = {}
    /\ dispatch = NoDispatch
    /\ invocations = <<>>
    /\ now = 0
    /\ returned = <<>>

\* new Engine(manifest, handlers): registerMany(handlers), then
\* validateHandlerBindings()
NewEngine(handlers) ==
    /\ constructed = NotConstructed
    /\ handlerRegistry' = handlers
    /\ constructed' = validateHandlerBindings(capabilities, handlers)
    /\ UNCHANGED <<capabilities, validation>>
    /\ UNCHANGED orchestratorVars
    /\ UNCHANGED dispatchVars

EngineNext == \E handlers \in HandlerMaps : NewEngine(handlers)

EngineSpec == EngineInit /\ [][EngineNext]_vars

\* ---------------------------------------------------- one engine, its calls
\* Engine.execute calls on one constructed engine, one at a time, with the
\* host's checkers, handlers and clock.

\* the longest a handler or a checker takes, and the longest timeout
MaxDelay == 2

\* the intents callers pass to Engine.execute
DispatchIntents ==
    {JsIntent("null", "", "absent", EmptyMap),
     JsIntent("string", "", "absent", EmptyMap),
     JsIntent("object", "", "object", EmptyMap),
     JsIntent("object", "addItem", "absent", EmptyMap),
     JsIntent("object", "unknownCapability", "object", EmptyMap),
     JsIntent("object", "addItem", "object", ("itemId" :> "s1")),
     JsIntent("object", "addItem", "object", EmptyMap),
     JsIntent("object", "logEvent", "object", EmptyMap),
     JsIntent("object", "logEvent", "array", EmptyMap),
     JsIntent("object", "logEvent", "primitive", EmptyMap),
     JsIntent("object", "addItem", "array", EmptyMap),
     JsIntent("object", "auditOrder", "object", ("orderId" :> "s1")),
     JsIntent("object", "checkout", "object", ("total" :> "s1")),
     JsIntent("object", "checkout", "object", ("total" :> "n1")),
     JsIntent("object", "checkout", "object", ("cvv" :> "s1") @@ ("billingZip" :> "s1")),
     JsIntent("object", "checkout", "object", ("total" :> "n1") @@ ("cvv" :> "s1") @@ ("billingZip" :> "s1"))}

Timeouts == 0..MaxDelay

\* a handler whose promise never settles
NeverSettles == Behaviour("async", 0, "never")

Behaviours ==
    {Behaviour(mode, d, ending) :
        mode \in {"sync", "async"}, d \in 0..MaxDelay,
        ending \in {"value", "error", "errorTimeoutText", "nonError"}}
    \cup {NeverSettles}

\* the references hosts register handlers under
RegisteredRefs == ManifestHandlers \cup {"spare"}

\* mutant: registering a handler drops the handlers registered before
registerHandler_Replaces(registry, ref) == {ref}

\* HandlerRegistry.register: handlers.set(ref, handler)
registerHandler(registry, ref) == registry \cup {ref}

\* PreconditionChecker.registerChecker: checkers.set(ref, checker)
registerChecker(chk, ref) == chk \cup {ref}

DispatchInit ==
    /\ pausedExecutions = <<>>
    /\ states = [e \in Execs |-> NoState]
    /\ pc = [e \in Execs |-> "idle"]
    /\ frame = [e \in Execs |-> NoFrame]
    /\ ret = [e \in Execs |-> NoResult]
    /\ engineCalls = [e \in Execs |-> <<>>]
    /\ nextToken = 1
    /\ lastResume = NoResume
    /\ consumed = {}
    /\ capabilities = ManifestBindings
    /\ handlerRegistry \in {ManifestHandlers, ManifestHandlers \ {"auditOrder"}}
    /\ constructed = validateHandlerBindings(capabilities, handlerRegistry)
    /\ validation = NoValidation
    /\ checkers = {}
    /\ dispatch = NoDispatch
    /\ invocations = <<>>
    /\ now = 0
    /\ returned = <<>>

Current == DispatchConf(dispatch, invocations, returned, now)

ApplyDispatch(c) ==
    /\ dispatch' = c.dispatch
    /\ invocations' = c.invocations
    /\ returned' = c.returned
    /\ now' = c.now

\* engine.execute(intent, {timeout}) is called; b is what the handler does if
\* the call gets to invoke it before its first await.  The clock is read
\* from the start of the call.  Calls are made one at a time.
Execute(x, timeout, b) ==
    /\ constructed.status = "ok"
    /\ dispatch.pc = "idle"
    /\ ApplyDispatch(execute(x, timeout, capabilities, checkers, handlerRegistry, b))
    /\ UNCHANGED checkers
    /\ UNCHANGED engineVars
    /\ UNCHANGED orchestratorVars

\* the awaited checker returns or throws
CheckerReturns(outcome, b) ==
    /\ dispatch.pc = "checking"
    /\ ApplyDispatch(checkOne(Current, outcome, capabilities, checkers, handlerRegistry, b))
    /\ UNCHANGED checkers
    /\ UNCHANGED engineVars
    /\ UNCHANGED orchestratorVars

\* the handler's promise settles while the race is open
HandlerSettles ==
    /\ dispatch.pc = "racing"
    /\ dispatch.inflight
    /\ dispatch.behaviour.ending # "never"
    /\ now = dispatch.start + dispatch.behaviour.d
    /\ ApplyDispatch(finish([Current EXCEPT !.dispatch.timer = "cleared", !.dispatch.inflight = FALSE],
                    formatHandlerResult(settled(dispatch.behaviour, now - dispatch.start))))
    /\ UNCHANGED checkers
    /\ UNCHANGED engineVars
    /\ UNCHANGED orchestratorVars

\* the timer fires while the race is open: timeoutPromise rejects
TimerFires ==
    /\ dispatch.pc = "racing"
    /\ dispatch.timer = "armed"
    /\ now >= dispatch.start + dispatch.timeout
    /\ ApplyDispatch(finish([Current EXCEPT !.dispatch.timer = "fired"],
                    formatHandlerResult(catchError(TRUE, timeoutMessage(dispatch.timeout),
                                                   now - dispatch.start))))
    /\ UNCHANGED checkers
    /\ UNCHANGED engineVars
    /\ UNCHANGED orchestratorVars

\* mutant: a handler that settles after the race was decided delivers a
\* second result
HandlerSettlesLate_Delivers ==
    /\ dispatch.pc = "returned"
    /\ dispatch.inflight
    /\ dispatch.behaviour.ending # "never"
    /\ now = dispatch.start + dispatch.behaviour.d
    /\ dispatch' = [dispatch EXCEPT !.inflight = FALSE]
    /\ returned' = Append(returned, formatHandlerResult(settled(dispatch.behaviour, now - dispatch.start)))
    /\ UNCHANGED <<checkers, invocations, now>>
    /\ UNCHANGED engineVars
    /\ UNCHANGED orchestratorVars

\* the handler's promise settles after the race was decided
HandlerSettlesLate ==
    /\ dispatch.pc = "returned"
    /\ dispatch.inflight
    /\ dispatch.behaviour.ending # "never"
    /\ now = dispatch.start + dispatch.behaviour.d
    /\ dispatch' = [dispatch EXCEPT !.inflight = FALSE]
    /\ UNCHANGED <<checkers, invocations, now, returned>>
    /\ UNCHANGED engineVars
    /\ UNCHANGED orchestratorVars

\* The caller's await of the call resumes with the result or the exception
\* and the call's frame is gone; the next call starts from a fresh frame.
CallerResumes ==
    /\ dispatch.pc \in {"returned", "threw"}
    /\ ApplyDispatch(DispatchConf(NoDispatch, <<>>, <<>>, 0))
    /\ UNCHANGED checkers
    /\ UNCHANGED engineVars
    /\ UNCHANGED orchestratorVars

\* Time passes while a checker or a handler is awaited.  Timers fire in the
\* order of their expiry: a due timer may fire late, but not after the
\* handler has become due.
Tick ==
    /\ \/ dispatch.pc = "checking" /\ now < MaxDelay
       \/ /\ dispatch.pc = "racing"
          /\ dispatch.behaviour.ending # "never"
          /\ now < dispatch.start + dispatch.behaviour.d
          /\ (now < dispatch.start + dispatch.timeout \/ now + 1 < dispatch.start + dispatch.behaviour.d)
       \/ /\ dispatch.pc = "racing"
          /\ dispatch.behaviour.ending = "never"
          /\ now < dispatch.start + dispatch.timeout
       \/ /\ dispatch.pc = "returned"
          /\ dispatch.inflight
          /\ dispatch.behaviour.ending # "never"
          /\ now < dispatch.start + dispatch.behaviour.d
    /\ now' = now + 1
    /\ UNCHANGED <<checkers, dispatch, invocations, returned>>
    /\ UNCHANGED engineVars
    /\ UNCHANGED orchestratorVars

\* engine.registerHandler(ref, handler)
RegisterHandler(ref) ==
    /\ constructed.status = "ok"
    /\ handlerRegistry' = registerHandler(handlerRegistry, ref)
    /\ UNCHANGED <<capabilities, constructed, validation>>
    /\ UNCHANGED dispatchVars
    /\ UNCHANGED orchestratorVars

\* engine.registerChecker(ref, checker)
RegisterChecker(ref) ==
    /\ constructed.status = "ok"
    /\ checkers' = registerChecker(checkers, ref)
    /\ UNCHANGED <<dispatch, invocations, now, returned>>
    /\ UNCHANGED engineVars
    /\ UNCHANGED orchestratorVars

\* The behaviours to tell apart for a segment of the call: all of them if
\* the segment invokes the handler, one (which goes unused) if it does not.
BehavioursFor(c) ==
    IF \E i \in 1..Len(c.invocations) : c.invocations[i].kind = "handler" THEN Behaviours
    ELSE {NoBehaviour}

DispatchNext ==
    \/ \E x \in DispatchIntents, timeout \in Timeouts :
          \E b \in IF dispatch.pc = "idle"
                   THEN BehavioursFor(execute(x, timeout, capabilities, checkers, handlerRegistry, NoBehaviour))
                   ELSE {} :
             Execute(x, timeout, b)
    \/ \E outcome \in {"true", "false", "throws"} :
          \E b \in IF dispatch.pc = "checking"
                   THEN BehavioursFor(checkOne(Current, outcome, capabilities, checkers, handlerRegistry, NoBehaviour))
                   ELSE {} :
             CheckerReturns(outcome, b)
    \/ HandlerSettles
    \/ TimerFires
    \/ HandlerSettlesLate
    \/ CallerResumes
    \/ Tick
    \/ \E ref \in RegisteredRefs : RegisterHandler(ref)
    \/ \E k \in 1..Len(CheckerRefs) : RegisterChecker(CheckerRefs[k])

DispatchSpec == DispatchInit /\ [][DispatchNext]_vars

\* The event loop makes progress: time passes, a due timer's callback runs,
\* and the continuation of a settled handler promise runs.  Nothing obliges
\* the host: callers need not call, and a checker need not ever return.
DispatchFairSpec ==
    /\ DispatchInit
    /\ [][DispatchNext]_vars
    /\ WF_vars(Tick)
    /\ WF_vars(TimerFires)
    /\ WF_vars(HandlerSettles)

\* -------------------------------------------------------------- properties
\* What the properties read off an execution's call log.
StepCalls(e) == SelectSeq(engineCalls[e], LAMBDA c : c.kind = "step")
UndoCalls(e) == SelectSeq(engineCalls[e], LAMBDA c : c.kind = "undo")

\* the step dispatches that returned success, oldest first: the steps the
\* ledger holds
Completed(e) == SelectSeq(StepCalls(e), LAMBDA c : c.result.success)

DeclaresUndo(call) == getCapability(call.intent.capabilityId).undoCapabilityId # NoUndo

Failed(call) == call.result # Pending /\ ~call.result.success

RolledBack(e) == pc[e] = "done" /\ ret[e].rolledBack

\* C1: the undo intents of a failed transactional execution are dispatched
\* newest ledger step first, in strictly descending ledger order, skipping
\* only steps that declare no undo; each carries the undo-capability id of
\* its step and exactly the parameters that step was dispatched with.
C1_UndoInReverseLedgerOrder ==
    \A e \in Execs :
        LET U == UndoCalls(e)
            L == Completed(e)
        IN \A k \in 1..Len(U) :
            LET j == U[k].index + 1
                newer == IF k = 1 THEN Len(L) ELSE U[k - 1].index
            IN /\ states[e].options.transactional
               /\ j \in 1..Len(L)
               /\ j <= newer
               /\ \A m \in (j + 1)..newer : ~DeclaresUndo(L[m])
               /\ U[k].intent.capabilityId = getCapability(L[j].intent.capabilityId).undoCapabilityId
               /\ U[k].intent.parameters = L[j].intent.parameters

\* C1 witness: a rollback that dispatched two undos with different parameters
C1_Witness ==
    \E e \in Execs :
        /\ RolledBack(e)
        /\ Len(UndoCalls(e)) = 2
        /\ UndoCalls(e)[1].intent.parameters # UndoCalls(e)[2].intent.parameters

FailureErrors(errors) ==
    SelectSeq(errors, LAMBDA r : r[1] \in {"Failed to undo", "Exception during undo"})

\* C2: an undo dispatch that failed (failed result or exception) is the last
\* dispatch of its execution, the call has returned rolled back, and its
\* rollback errors end with the one error recorded for that undo; without a
\* failed undo no such error is recorded.
C2_RollbackHaltsOnFailedUndo ==
    \A e \in Execs :
        /\ \A k \in 1..Len(engineCalls[e]) :
            LET c == engineCalls[e][k]
            IN (c.kind = "undo" /\ Failed(c)) =>
                /\ k = Len(engineCalls[e])
                /\ RolledBack(e)
                /\ Len(FailureErrors(ret[e].rollbackErrors)) = 1
                /\ ret[e].rollbackErrors[Len(ret[e].rollbackErrors)] =
                       RollbackError(IF c.result = Thrown THEN "Exception during undo" ELSE "Failed to undo",
                                     Completed(e)[c.index + 1].intent.capabilityId, c.result.message)
        /\ RolledBack(e) =>
               LET U == UndoCalls(e)
               IN (\A k \in 1..Len(U) : ~Failed(U[k])) => FailureErrors(ret[e].rollbackErrors) = <<>>

\* C2 witness: the undo of the newest step failed while an older step that
\* declares an undo was left without one
C2_Witness ==
    \E e \in Execs :
        /\ RolledBack(e)
        /\ Len(UndoCalls(e)) = 1
        /\ Failed(UndoCalls(e)[1])
        /\ UndoCalls(e)[1].index >= 1
        /\ DeclaresUndo(Completed(e)[1])

\* the ledger positions (1-based) the walk of a finished rollback reached:
\* those not older than a failed undo
ReachedIn(L, U) ==
    {m \in 1..Len(L) : \A k \in 1..Len(U) : Failed(U[k]) => U[k].index + 1 <= m}

Reached(e) == ReachedIn(Completed(e), UndoCalls(e))

UndoDispatchedIn(U, m) == \E k \in 1..Len(U) : U[k].index + 1 = m

UndoDispatchedFor(e, m) == UndoDispatchedIn(UndoCalls(e), m)

NoUndoErrors(errors) ==
    SelectSeq(errors, LAMBDA r : r[1] = "Cannot undo - no undoHandler defined")

\* the capability ids of the reached ledger steps without an undo, from
\* position m down to the oldest
RECURSIVE ReachedWithoutUndo(_, _, _)
ReachedWithoutUndo(L, R, m) ==
    IF m = 0 THEN <<>>
    ELSE (IF m \in R /\ ~DeclaresUndo(L[m]) THEN <<L[m].intent.capabilityId>> ELSE <<>>)
         \o ReachedWithoutUndo(L, R, m - 1)

\* C3 as stated: after the walk reached a ledger step without an undo,
\* every older ledger step that declares an undo is dispatched for undo.
C3_EveryOlderUndoDispatched ==
    \A e \in Execs : RolledBack(e) =>
        \A m \in Reached(e) : ~DeclaresUndo(Completed(e)[m]) =>
            \A j \in 1..(m - 1) : DeclaresUndo(Completed(e)[j]) => UndoDispatchedFor(e, j)

\* C3 (amended): each ledger step without an undo that the walk reaches adds
\* exactly one rollback error naming its capability, in walk order, and the
\* walk goes on: the nearest older ledger step that declares an undo is
\* dispatched for undo.
C3_NoUndoStepIsSkipped ==
    \A e \in Execs : RolledBack(e) =>
        LET L == Completed(e)
            U == UndoCalls(e)
            R == ReachedIn(L, U)
            N == NoUndoErrors(ret[e].rollbackErrors)
        IN /\ [k \in 1..Len(N) |-> N[k][2]] = ReachedWithoutUndo(L, R, Len(L))
           /\ \A m \in R : ~DeclaresUndo(L[m]) =>
                  \A j \in 1..(m - 1) :
                      (DeclaresUndo(L[j]) /\ \A x \in (j + 1)..(m - 1) : ~DeclaresUndo(L[x]))
                          => UndoDispatchedIn(U, j)

\* C3 witness: the newest ledger step has no undo, its error is recorded and
\* the undo of an older step was dispatched after it
C3_Witness ==
    \E e \in Execs :
        /\ RolledBack(e)
        /\ Len(Completed(e)) >= 2
        /\ ~DeclaresUndo(Completed(e)[Len(Completed(e))])
        /\ Len(NoUndoErrors(ret[e].rollbackErrors)) = 1
        /\ Len(UndoCalls(e)) >= 1

\* the names of the required on-demand parameters of the step execution e
\* stands at that are absent from its provided and collected values
StillMissing(e) ==
    LET st == states[e]
        intent == st.strategy[st.currentIndex + 1]
        capability == getCapability(intent.capabilityId)
        collected == IF st.currentIndex \in DOMAIN st.collectedParameters
                     THEN st.collectedParameters[st.currentIndex] ELSE EmptyMap
    IN {capability.parameters[k].name : k \in
           {x \in 1..Len(capability.parameters) :
               /\ capability.parameters[x].collectionApproach = "on-demand"
               /\ capability.parameters[x].isRequired
               /\ \/ capability.parameters[x].name \notin (DOMAIN intent.parameters) \cup (DOMAIN collected)
                  \/ (capability.parameters[x].name \in DOMAIN collected
                         /\ collected[capability.parameters[x].name] = Null)
                  \/ (capability.parameters[x].name \notin DOMAIN collected
                         /\ intent.parameters[capability.parameters[x].name] = Null)}}

\* C4: a paused execution's result carries one resume token, the only token
\* that maps to the execution; its requiredInputs name, once each, exactly
\* the required on-demand parameters of the parked step that are absent from
\* the provided values united with the values collected for that index; and
\* the parked step has not been dispatched.
C4_PauseReportsExactlyTheMissing ==
    \A e \in Execs : pc[e] = "paused" =>
        LET missing == StillMissing(e)
            S == StepCalls(e)
        IN /\ ret[e].paused
           /\ ret[e].resumeToken # NoToken
           /\ {t \in DOMAIN pausedExecutions : pausedExecutions[t] = e} = {ret[e].resumeToken}
           /\ {ret[e].requiredInputs[k].parameter : k \in 1..Len(ret[e].requiredInputs)} = missing
           /\ Cardinality(missing) = Len(ret[e].requiredInputs)
           /\ missing # {}
           /\ \A k \in 1..Len(S) : S[k].index # states[e].currentIndex

\* C4 witness: an execution paused again after a resume that supplied one of
\* two missing parameters; only the other one is asked for
C4_Witness ==
    \E e \in Execs :
        /\ pc[e] = "paused"
        /\ consumed # {}
        /\ Len(ret[e].requiredInputs) = 1
        /\ states[e].currentIndex \in DOMAIN states[e].collectedParameters
        /\ DOMAIN states[e].collectedParameters[states[e].currentIndex] # {}

\* C5 as stated: a valid resume keeps every name already collected for the
\* parked step index next to the names it supplies.
C5_ResumeMergesIntoCollected ==
    [][lastResume'.hit =>
          LET e == pausedExecutions[lastResume'.token]
              i == states[e].currentIndex
          IN \A n \in DOMAIN collectedGet(states[e]) :
                /\ i \in DOMAIN states'[e].collectedParameters
                /\ n \in DOMAIN states'[e].collectedParameters[i]]_vars

\* C6: a token that a resume has hit is gone for good: it is never in the
\* parked-state table again, a later resume with it misses with
\* INVALID_RESUME_TOKEN, and an execution that pauses again holds a token
\* that was never hit.
C6_TokenIsSingleUse ==
    /\ consumed \cap DOMAIN pausedExecutions = {}
    /\ lastResume.spent => (~lastResume.hit /\ lastResume.code = "INVALID_RESUME_TOKEN")
    /\ \A e \in Execs : pc[e] = "paused" => ret[e].resumeToken \notin consumed

\* C6 witness: a resume with an already hit token has just missed while the
\* resumed execution is parked again under another token
C6_Witness ==
    /\ lastResume.spent
    /\ lastResume.code = "INVALID_RESUME_TOKEN"
    /\ \E e \in Execs : pc[e] = "paused" /\ ret[e].resumeToken \in DOMAIN pausedExecutions

\* C7: a resume that misses returns INVALID_RESUME_TOKEN and leaves the
\* parked-state table, every execution state and ledger, every call in
\* progress and the engine call log as they were.
C7_MissChangesNothing ==
    [][(lastResume' # NoResume /\ ~lastResume'.hit) =>
          /\ lastResume'.code = "INVALID_RESUME_TOKEN"
          /\ UNCHANGED <<pausedExecutions, states, pc, frame, ret, engineCalls, nextToken, consumed>>]_vars

\* C7 witness: a miss while an execution with a non-empty ledger is parked
C7_Witness ==
    /\ lastResume.code = "INVALID_RESUME_TOKEN"
    /\ \E t \in DOMAIN pausedExecutions : Len(states[pausedExecutions[t]].executedSteps) > 0

\* C8: within one execution no step index is dispatched to the engine twice.
C8_StepDispatchedAtMostOnce ==
    \A e \in Execs :
        LET S == StepCalls(e)
        IN \A k, l \in 1..Len(S) : S[k].index = S[l].index => k = l

\* C8 witness: an execution that completed steps, paused, was resumed and
\* dispatched the parked step
C8_Witness ==
    \E e \in Execs :
        /\ consumed # {}
        /\ Len(StepCalls(e)) >= 3
        /\ pc[e] = "done"

\* the values collected for step index i of execution e
CollectedAt(e, i) ==
    IF i \in DOMAIN states[e].collectedParameters THEN states[e].collectedParameters[i] ELSE EmptyMap

\* C9: every step dispatched to the engine has each required on-demand
\* parameter of its capability non-null in the provided values united with
\* the values collected for its index.
C9_DispatchOnlyWhenResolved ==
    \A e \in Execs : \A k \in 1..Len(engineCalls[e]) : engineCalls[e][k].kind = "step" =>
        LET c == engineCalls[e][k]
            provided == states[e].strategy[c.index + 1].parameters
            collected == CollectedAt(e, c.index)
            capability == getCapability(c.intent.capabilityId)
        IN \A x \in 1..Len(capability.parameters) :
              (capability.parameters[x].collectionApproach = "on-demand" /\ capability.parameters[x].isRequired)
                  => \E src \in {provided, collected} :
                        /\ capability.parameters[x].name \in DOMAIN src
                        /\ src[capability.parameters[x].name] # Null

\* C9 witness: a step with two required on-demand parameters was dispatched
\* after a resume
C9_Witness ==
    \E e \in Execs : \E k \in 1..Len(StepCalls(e)) :
        /\ StepCalls(e)[k].intent.capabilityId = "checkout"
        /\ DOMAIN CollectedAt(e, StepCalls(e)[k].index) # {}

\* C10: the parameters a step is dispatched with are the provided ones
\* overlaid with the ones collected for its index: a name in both carries
\* the collected value, a name in one of them carries that one's value, and
\* there is no other name.
C10_CollectedOverlaysProvided ==
    \A e \in Execs : \A k \in 1..Len(engineCalls[e]) : engineCalls[e][k].kind = "step" =>
        LET c == engineCalls[e][k]
            provided == states[e].strategy[c.index + 1].parameters
            collected == CollectedAt(e, c.index)
            sent == c.intent.parameters
        IN /\ c.intent.capabilityId = states[e].strategy[c.index + 1].capabilityId
           /\ DOMAIN sent = (DOMAIN provided) \cup (DOMAIN collected)
           /\ \A n \in DOMAIN collected : sent[n] = collected[n]
           /\ \A n \in (DOMAIN provided) \ (DOMAIN collected) : sent[n] = provided[n]

\* C10 witness: a dispatched step for which a name was both provided and
\* collected, with different values
C10_Witness ==
    \E e \in Execs : \E k \in 1..Len(StepCalls(e)) :
        LET c == StepCalls(e)[k]
        IN \E n \in (DOMAIN states[e].strategy[c.index + 1].parameters) \cap (DOMAIN CollectedAt(e, c.index)) :
              /\ states[e].strategy[c.index + 1].parameters[n] # CollectedAt(e, c.index)[n]
              /\ \E m \in DOMAIN c.intent.parameters : m \notin DOMAIN CollectedAt(e, c.index)

\* the ledger positions (1-based) that declare an undo, from position m down
\* to the oldest
RECURSIVE UndoableFrom(_, _)
UndoableFrom(L, m) ==
    IF m = 0 THEN <<>>
    ELSE (IF DeclaresUndo(L[m]) THEN <<m>> ELSE <<>>) \o UndoableFrom(L, m - 1)

FailedTransactional(e) ==
    /\ pc[e] = "done"
    /\ ret[e].kind = "failed"
    /\ states[e].options.transactional
    /\ Len(Completed(e)) > 0

\* the execution was resumed at least once
Resumed(e) == DOMAIN states[e].collectedParameters # {}

\* C11: a transactional execution that fails after completing steps reports
\* rolledBack, whether or not it paused in between; its undo dispatches are
\* the undo-declaring steps of the whole ledger, newest first, up to the
\* first failing undo (all of them when no undo fails), and every undo is
\* dispatched with the context accumulated from all completed steps (each
\* key holding the value of the last completed step that set it).
C11_LedgerSurvivesPauseAndResume ==
    \A e \in Execs : FailedTransactional(e) =>
        LET U == UndoCalls(e)
            L == Completed(e)
            expected == UndoableFrom(L, Len(L))
        IN /\ ret[e].rolledBack
           /\ Len(U) <= Len(expected)
           /\ \A k \in 1..Len(U) : U[k].index + 1 = expected[k]
           /\ (\A k \in 1..Len(U) : ~Failed(U[k])) => Len(U) = Len(expected)
           /\ \A k \in 1..Len(U) : \A j \in 1..Len(L) :
                  \A n \in DOMAIN L[j].result.payload :
                      /\ n \in DOMAIN U[k].context
                      /\ (\A later \in (j + 1)..Len(L) : n \notin DOMAIN L[later].result.payload)
                            => U[k].context[n] = L[j].result.payload[n]

\* C11 witness: steps completed, the execution paused and was resumed, the
\* parked step then failed, and a step completed before the pause was undone
C11_Witness ==
    \E e \in Execs :
        /\ FailedTransactional(e)
        /\ Resumed(e)
        /\ ret[e].stepIndex \in DOMAIN states[e].collectedParameters
        /\ ret[e].rolledBack
        /\ \E k \in 1..Len(UndoCalls(e)) :
               /\ UndoCalls(e)[k].index < ret[e].stepIndex
               /\ UndoCalls(e)[k].result.success
               /\ DOMAIN UndoCalls(e)[k].context # {}

\* C12: a failed execution that is not transactional, or that had completed
\* no step, dispatched no undo and its result has no rolledBack flag and no
\* rollback errors; an undo is only ever dispatched for a transactional
\* execution with a non-empty ledger.
C12_NoRollbackWithoutTransactionOrLedger ==
    \A e \in Execs :
        LET undone == \E k \in 1..Len(engineCalls[e]) : engineCalls[e][k].kind = "undo"
            ledger == \E k \in 1..Len(engineCalls[e]) :
                          engineCalls[e][k].kind = "step" /\ engineCalls[e][k].result.success
        IN /\ (pc[e] = "done" /\ ret[e].kind = "failed" /\ (~states[e].options.transactional \/ ~ledger))
                 => (~undone /\ ~ret[e].rolledBack /\ ret[e].rollbackErrors = <<>>)
           /\ undone => (states[e].options.transactional /\ ledger)

\* C12 witness: a non-transactional execution failed after completing a step
\* that declares an undo
C12_Witness ==
    \E e \in Execs :
        /\ pc[e] = "done" /\ ret[e].kind = "failed"
        /\ ~states[e].options.transactional
        /\ \E j \in 1..Len(Completed(e)) : DeclaresUndo(Completed(e)[j])

FailedResult(e) == pc[e] = "done" /\ ret[e].kind = "failed"

\* C13: a failed result names the failure that started the failure path:
\* for a step whose capability is unknown, CAPABILITY_NOT_FOUND with that
\* capability's id; otherwise the error type and message of the execution's
\* last step dispatch, which failed; and in both cases that step's index.
\* Nothing of this depends on what the rollback did.
C13_ErrorIsTheTriggeringFailure ==
    \A e \in Execs : FailedResult(e) =>
        /\ ret[e].stepIndex \in 0..(Len(states[e].strategy) - 1)
        /\ ~ret[e].success
        /\ LET intent == states[e].strategy[ret[e].stepIndex + 1]
               S == StepCalls(e)
           IN IF intent.capabilityId \notin DOMAIN Manifest
              THEN /\ ret[e].code = "CAPABILITY_NOT_FOUND"
                   /\ ret[e].message = Msg("Capability not found", intent.capabilityId)
                   /\ \A k \in 1..Len(S) : S[k].index < ret[e].stepIndex
              ELSE /\ Len(S) > 0
                   /\ S[Len(S)].index = ret[e].stepIndex
                   /\ ~S[Len(S)].result.success
                   /\ ret[e].code = S[Len(S)].result.type
                   /\ ret[e].message = S[Len(S)].result.message

\* C13 witness: the rollback halted on a failing undo and the result still
\* carries the failed step's error
C13_Witness ==
    \E e \in Execs :
        /\ RolledBack(e)
        /\ FailureErrors(ret[e].rollbackErrors) # <<>>
        /\ ret[e].code = "EXECUTION_ERROR"
        /\ ret[e].stepIndex > 0

\* the failed step dispatch is one continueOnError skips
Skipped(e, call) ==
    /\ Failed(call)
    /\ call.result # Thrown
    /\ states[e].options.continueOnError
    /\ call.result.type = "PRECONDITION_FAILED"

\* C14: a step dispatch that failed (or threw) and is not skipped by
\* continueOnError is the last step dispatch of its execution: no step is
\* dispatched after it, and the call has ended in the failure path.
C14_FailureStopsTheStrategy ==
    \A e \in Execs :
        LET S == StepCalls(e)
        IN \A k \in 1..Len(S) : (Failed(S[k]) /\ ~Skipped(e, S[k])) =>
              /\ k = Len(S)
              /\ pc[e] \in {"undo", "done", "threw"}
              /\ pc[e] = "done" => ret[e].kind = "failed"
              /\ pc[e] # "threw" => states[e].currentIndex = S[k].index

\* C14 witness: the first step of a longer strategy failed with
\* PRECONDITION_FAILED while continueOnError was off
C14_Witness ==
    \E e \in Execs :
        /\ FailedResult(e)
        /\ ~states[e].options.continueOnError
        /\ ret[e].code = "PRECONDITION_FAILED"
        /\ ret[e].stepIndex + 1 < Len(states[e].strategy)
        /\ Len(StepCalls(e)) = 1

\* the error kinds of a failed ExecutionResult other than PRECONDITION_FAILED
CriticalKinds == {"VALIDATION_ERROR", "EXECUTION_ERROR", "TIMEOUT", "HANDLER_NOT_FOUND"}

\* the context the execution had right after its k-th engine call was made:
\* that of the next engine call, or the current one when there is none
ContextAfter(e, k) ==
    IF k < Len(engineCalls[e]) THEN engineCalls[e][k + 1].context ELSE states[e].accumulatedContext

\* C15: with continueOnError a step that failed with PRECONDITION_FAILED is
\* passed over: the index is beyond it, the ledger holds only successful
\* steps (one per successful dispatch, so no undo is ever aimed at the
\* skipped step) and the context after it is the context it was dispatched
\* with; a failed result of any other kind is not classified non-critical,
\* and a step that failed with one is the execution's last step dispatch.
C15_SkipOnlyPreconditionFailures ==
    /\ \A t \in CriticalKinds : ~isNonCriticalError(ExecutionResult(FALSE, t, NoMsg, EmptyMap))
    /\ isNonCriticalError(ExecutionResult(FALSE, "PRECONDITION_FAILED", NoMsg, EmptyMap))
    /\ \A e \in Execs :
          /\ LET L == Completed(e)
             IN /\ Len(states[e].executedSteps) = Len(L)
                /\ \A j \in 1..Len(L) :
                       /\ states[e].executedSteps[j].result.success
                       /\ states[e].executedSteps[j].intent = L[j].intent
          /\ \A k \in 1..Len(engineCalls[e]) :
                 LET c == engineCalls[e][k]
                 IN (c.kind = "step" /\ Failed(c) /\ c.result # Thrown) =>
                       IF states[e].options.continueOnError /\ c.result.type = "PRECONDITION_FAILED"
                       THEN /\ states[e].currentIndex > c.index
                            /\ ContextAfter(e, k) = c.context
                            /\ states[e].results[Cardinality({l \in 1..k : engineCalls[e][l].kind = "step"})] = c.result
                       ELSE /\ states[e].currentIndex = c.index
                            /\ \A l \in (k + 1)..Len(engineCalls[e]) : engineCalls[e][l].kind = "undo"
                            /\ pc[e] \in {"undo", "done"}

\* C15 witness: a step was skipped after two steps had completed, the
\* strategy failed later, and the rollback undid the two completed steps
\* without an entry for the skipped one
C15_Witness ==
    \E e \in Execs :
        /\ RolledBack(e)
        /\ states[e].options.continueOnError
        /\ \E k \in 1..Len(StepCalls(e)) :
               /\ StepCalls(e)[k].result.type = "PRECONDITION_FAILED"
               /\ StepCalls(e)[k].index = 2
               /\ DOMAIN StepCalls(e)[k].context # {}
        /\ Len(UndoCalls(e)) = 2
        /\ ret[e].rollbackErrors = <<>>

Returned(e) == ret[e].kind \in {"success", "paused", "failed"}

\* C16 as stated: in every strategy result completedSteps is the number of
\* entries of the executed-step ledger.
C16_CompletedStepsIsLedgerSize ==
    \A e \in Execs : Returned(e) => ret[e].completedSteps = Len(states[e].executedSteps)

\* C16 (amended): a succeeded or paused result counts every step result so
\* far, skipped failures included; a failed result counts the successful
\* ones, which is the size of the ledger.
C16_CompletedStepsByResultKind ==
    \A e \in Execs :
        /\ ret[e].kind \in {"success", "paused"} =>
              LET S == StepCalls(e)
              IN /\ ret[e].completedSteps = Len(ret[e].results)
                 /\ ret[e].completedSteps = Len(S)
                 /\ ret[e].completedSteps =
                        Len(states[e].executedSteps) + Len(SelectSeq(S, LAMBDA c : Skipped(e, c)))
        /\ ret[e].kind = "failed" =>
              /\ ret[e].completedSteps = Len(states[e].executedSteps)
              /\ ret[e].completedSteps = Len(Completed(e))

\* C16 witness: a strategy succeeded after one of its steps was skipped, and
\* reports more completed steps than its ledger holds
C16_Witness ==
    \E e \in Execs :
        /\ ret[e].kind = "success"
        /\ ret[e].completedSteps = Len(states[e].strategy)
        /\ Len(states[e].executedSteps) < ret[e].completedSteps

\* C17 as stated: a step whose intent omits a required parameter that the
\* accumulated context holds is dispatched with the context's value for it
\* and is not rejected for the missing parameter.
C17_ContextFillsMissingParameters ==
    \A e \in Execs : \A k \in 1..Len(StepCalls(e)) :
        LET c == StepCalls(e)[k]
            capability == getCapability(c.intent.capabilityId)
        IN \A x \in 1..Len(capability.parameters) :
              LET n == capability.parameters[x].name
              IN (/\ capability.parameters[x].isRequired
                  /\ n \notin DOMAIN states[e].strategy[c.index + 1].parameters
                  /\ n \in DOMAIN c.context
                  /\ c.result # Pending)
                    => /\ c.result.type # "VALIDATION_ERROR"
                       /\ n \in DOMAIN c.intent.parameters
                       /\ c.intent.parameters[n] = c.context[n]

\* C18: a step dispatched with collected values that do not validate ends
\* as a VALIDATION_ERROR result carrying the first validation error: it is
\* the execution's last step dispatch and never enters the ledger, the
\* strategy fails with VALIDATION_ERROR at that step's index, and a
\* transactional execution with a non-empty ledger is rolled back.
C18_MalformedResumeValuesFailValidation ==
    \A e \in Execs : \A k \in 1..Len(engineCalls[e]) : engineCalls[e][k].kind = "step" =>
        LET c == engineCalls[e][k]
        IN (/\ DOMAIN CollectedAt(e, c.index) # {}
            /\ validateIntent(c.intent) # <<>>
            /\ c.result \notin {Pending, Thrown})
              => /\ c.result.type = "VALIDATION_ERROR"
                 /\ ~c.result.success
                 /\ c.result.message = validateIntent(c.intent)[1]
                 /\ \A l \in (k + 1)..Len(engineCalls[e]) : engineCalls[e][l].kind = "undo"
                 /\ pc[e] \in {"undo", "done"}
                 /\ states[e].currentIndex = c.index
                 /\ pc[e] = "done" =>
                        /\ ret[e].kind = "failed"
                        /\ ret[e].code = "VALIDATION_ERROR"
                        /\ ret[e].stepIndex = c.index
                        /\ ret[e].rolledBack = (states[e].options.transactional /\ Len(Completed(e)) > 0)

\* C18 witness: a resume supplied a number for a string parameter; the
\* parked step was dispatched, failed validation, and the steps completed
\* before the pause were rolled back
C18_Witness ==
    \E e \in Execs :
        /\ FailedResult(e)
        /\ ret[e].code = "VALIDATION_ERROR"
        /\ ret[e].rolledBack
        /\ \E n \in DOMAIN CollectedAt(e, ret[e].stepIndex) : CollectedAt(e, ret[e].stepIndex)[n] \in NumberValues
        /\ Len(UndoCalls(e)) >= 1

\* the 0-based index of the first step of the execution's strategy whose
\* capability is not in the manifest, Len(strategy) when there is none
FirstUnknown(e) ==
    LET unknown == {i \in 0..(Len(states[e].strategy) - 1) :
                       states[e].strategy[i + 1].capabilityId \notin DOMAIN Manifest}
    IN IF unknown = {} THEN Len(states[e].strategy)
       ELSE CHOOSE i \in unknown : \A j \in unknown : i <= j

CapabilitySet == {capabilities[i] : i \in 1..Len(capabilities)}

MissingRequired(x) ==
    /\ x.shape = "object"
    /\ x.capabilityId \in DOMAIN Manifest
    /\ isParametersObject(x)
    /\ \E i \in 1..Len(Manifest[x.capabilityId].parameters) :
          /\ Manifest[x.capabilityId].parameters[i].isRequired
          /\ IsAbsent(x.parameters, Manifest[x.capabilityId].parameters[i].name)

\* C21: for every intent that omits a required parameter of its capability,
\* Engine.execute returns success=false with kind VALIDATION_ERROR and a
\* message that mentions "required", whatever the other parameters are.
C21_MissingRequiredIsReported ==
    (dispatch.pc = "returned" /\ MissingRequired(dispatch.intent)) =>
        /\ Len(returned) = 1
        /\ ~returned[1].success
        /\ returned[1].type = "VALIDATION_ERROR"
        /\ returned[1].message[1] = "is required"

\* C22: once an engine is constructed, Engine.execute never throws: every
\* validation failure (an intent that is null or not an object included),
\* every precondition failure and every handler or checker exception is
\* returned as a failure result.
C22_ExecuteNeverThrows ==
    dispatch.pc # "threw"

\* What the properties read off the call in progress.
HandlerInvoked == \E i \in 1..Len(invocations) : invocations[i].kind = "handler"

\* the message Engine.execute reports for a checker that returned `outcome`
FailedCheckMessage(pre, outcome) ==
    IF outcome = "false" THEN pre.errorMessage ELSE Msg("Precondition check failed", pre.checkerRef)

\* C23: in a single dispatch the handler is invoked only after the intent
\* validated and every precondition's checker returned true; on a validation
\* failure nothing is invoked and the result is a VALIDATION_ERROR; when a
\* checker is missing, returns false or throws, the handler is not invoked
\* and the result is PRECONDITION_FAILED with that check's message.
C23_HandlerAfterValidationAndPreconditions ==
    LET x == dispatch.intent
        errors == strategyValidate(x)
        n == Len(invocations)
    IN  /\ (dispatch.pc # "idle" /\ Len(errors) > 0) =>
              /\ invocations = <<>>
              /\ dispatch.pc = "returned" => returned = <<formatError("VALIDATION_ERROR", errors[1])>>
        /\ HandlerInvoked =>
              /\ Len(errors) = 0
              /\ LET pre == Preconditions(Manifest[x.capabilityId])
                 IN  /\ n = Len(pre) + 1
                     /\ \A k \in 1..Len(pre) :
                           invocations[k] = Invocation("checker", pre[k].checkerRef, "true")
        /\ (n > 0 /\ invocations[n].kind = "checker" /\ invocations[n].outcome \in {"false", "throws"}) =>
              /\ dispatch.pc = "returned"
              /\ returned = <<formatError("PRECONDITION_FAILED",
                                          FailedCheckMessage(Preconditions(Manifest[x.capabilityId])[n],
                                                             invocations[n].outcome))>>
        /\ (dispatch.pc = "returned" /\ returned[1].type \in {"VALIDATION_ERROR", "PRECONDITION_FAILED"}) =>
              ~HandlerInvoked

\* C23 witness: the handler of a capability with three preconditions has
\* been invoked
C23_Witness ==
    /\ HandlerInvoked
    /\ Len(invocations) = 4

\* the checkers the call in progress has invoked, in order
CheckerInvocations == SelectSeq(invocations, LAMBDA v : v.kind = "checker")

\* C24: checkAll evaluates the preconditions strictly in declaration order
\* and stops at the first failure: the checkers invoked are those of the
\* first j preconditions in order, every one before the last returned true,
\* and when a check fails (false, throw, or no registered checker) no later
\* check is invoked and the reported failed condition is that check's.
C24_ChecksInOrderUntilFirstFailure ==
    (dispatch.pc # "idle" /\ Len(strategyValidate(dispatch.intent)) = 0) =>
        LET pre == Preconditions(Manifest[dispatch.intent.capabilityId])
            checks == CheckerInvocations
            j == Len(checks)
        IN  /\ j <= Len(pre)
            /\ \A i \in 1..j : checks[i].ref = pre[i].checkerRef
            /\ \A i \in 1..(j - 1) : checks[i].outcome = "true"
            /\ \A i \in 1..j :
                  checks[i].outcome \in {"false", "throws"} =>
                      /\ i = j
                      /\ dispatch.pc = "returned"
                      /\ returned = <<formatError("PRECONDITION_FAILED",
                                                  FailedCheckMessage(pre[i], checks[i].outcome))>>
            /\ (/\ dispatch.pc = "returned"
                /\ returned[1].type = "PRECONDITION_FAILED"
                /\ (j = 0 \/ checks[j].outcome = "true")) =>
                      /\ j < Len(pre)
                      /\ returned[1].message = Msg("Precondition checker not found", pre[j + 1].checkerRef)

\* C24 witness: of three preconditions whose checkers are all registered the
\* second returned false, and the call returned without invoking the third
C24_Witness ==
    /\ dispatch.pc = "returned"
    /\ dispatch.intent.capabilityId = "auditOrder"
    /\ Len(invocations) = 2
    /\ invocations[2].outcome = "false"
    /\ "check.3" \in checkers

\* C25: a handler that throws or rejects before the deadline yields error
\* kind EXECUTION_ERROR, whatever the thrown error's message is, and TIMEOUT
\* is reported only when the timer fired before the handler settled.
C25_TimeoutOnlyWhenTimerFired ==
    (dispatch.pc = "returned" /\ HandlerInvoked) =>
        /\ returned[1].type = "TIMEOUT" => dispatch.timer = "fired"
        /\ (dispatch.behaviour.ending # "value" /\ dispatch.timer # "fired") =>
              returned[1].type = "EXECUTION_ERROR"

\* C26 (as written): for a handler that takes d time units dispatched with
\* timeout t, d < t gives success with the handler's value and d > t gives
\* TIMEOUT with a recorded elapsed time of at least t; exactly one result is
\* returned and a late completion of the handler changes nothing.
C26_DeadlineDecides ==
    (dispatch.pc = "returned" /\ HandlerInvoked) =>
        LET b == dispatch.behaviour
            t == dispatch.timeout
        IN  /\ Len(returned) = 1
            /\ (b.d < t /\ b.ending = "value") =>
                  returned[1] = DispatchResult(TRUE, "", NoMsg, HandlerValue, b.d)
            /\ b.d > t =>
                  /\ returned[1].type = "TIMEOUT"
                  /\ returned[1].executionTime >= t

\* C26 (amended): the deadline decides for a handler that returns a promise
\* settling after d: d < t gives success with the handler's value, d > t
\* gives TIMEOUT naming t with a recorded elapsed time of at least t, and the
\* late settlement changes nothing.  A handler that completes within the
\* call after d is never timed out: its value is returned as a success with
\* elapsed time d, also when d > t.  Exactly one result is returned.
C26_DeadlineDecidesForPromises ==
    (dispatch.pc = "returned" /\ HandlerInvoked) =>
        LET b == dispatch.behaviour
            t == dispatch.timeout
        IN  /\ Len(returned) = 1
            /\ (b.d < t /\ b.ending = "value") =>
                  returned[1] = DispatchResult(TRUE, "", NoMsg, HandlerValue, b.d)
            /\ (b.d > t /\ b.mode = "async") =>
                  /\ returned[1].type = "TIMEOUT"
                  /\ returned[1].message = timeoutMessage(t)
                  /\ returned[1].executionTime >= t
                  /\ returned[1].executionTime < b.d
            /\ (b.d > t /\ b.mode = "sync" /\ b.ending = "value") =>
                  returned[1] = DispatchResult(TRUE, "", NoMsg, HandlerValue, b.d)

\* C26 witness: the timer fired late on a promise that needed longer than
\* the timeout, TIMEOUT was returned and the promise has settled since
C26_Witness ==
    /\ dispatch.pc = "returned"
    /\ dispatch.behaviour.mode = "async"
    /\ dispatch.behaviour.d > dispatch.timeout
    /\ dispatch.timer = "fired"
    /\ ~dispatch.inflight
    /\ returned[1].executionTime > dispatch.timeout

\* --------------------------------------- further properties of the executor
\* C27: within one strategy execution the dispatches are totally ordered:
\* the dispatch of a step or of a rollback undo begins only after every
\* earlier dispatch of the execution has returned (or thrown), and a
\* dispatch is pending only while the call awaits it.
C27_DispatchesTotallyOrdered ==
    \A e \in Execs :
        LET calls == engineCalls[e]
        IN  /\ \A k \in 1..(Len(calls) - 1) : calls[k].result # Pending
            /\ (pc[e] \in {"dispatch", "undo"}) <=>
                  (Len(calls) > 0 /\ calls[Len(calls)].result = Pending)

\* C27 witness: after two step dispatches returned, a rollback undo is
\* pending
C27_Witness ==
    \E e \in Execs :
        /\ Len(engineCalls[e]) >= 3
        /\ engineCalls[e][Len(engineCalls[e])].kind = "undo"
        /\ engineCalls[e][Len(engineCalls[e])].result = Pending

\* the shallow merge, in dispatch order, of the payloads of the successful
\* step dispatches among the first n calls of a log
RECURSIVE FoldPayloads(_, _)
FoldPayloads(calls, n) ==
    IF n = 0 THEN EmptyMap
    ELSE IF calls[n].kind = "step" /\ calls[n].result.success
         THEN Spread(FoldPayloads(calls, n - 1), calls[n].result.payload)
         ELSE FoldPayloads(calls, n - 1)

\* C28: the accumulated context is the shallow merge, later keys overwriting
\* earlier ones, of the payloads of the steps that succeeded so far; every
\* step dispatch and every rollback undo is given the context accumulated
\* from the successful steps before it, and failed or skipped steps (and
\* undos) contribute nothing.
C28_ContextIsFoldOfSuccessfulPayloads ==
    \A e \in Execs :
        LET calls == engineCalls[e]
        IN  /\ \A k \in 1..Len(calls) : calls[k].context = FoldPayloads(calls, k - 1)
            /\ states[e].accumulatedContext = FoldPayloads(calls, Len(calls))

\* C28 witness: a rollback undo is dispatched with a context in which a
\* later successful step overwrote the value an earlier one had set
C28_Witness ==
    \E e \in Execs : \E k \in 1..Len(engineCalls[e]) : \E i \in 1..(k - 1) : \E j \in (i + 1)..(k - 1) :
        LET calls == engineCalls[e]
        IN  /\ calls[i].result.success
            /\ calls[i].result.payload = ("cartId" :> "s1")
            /\ calls[j].result.success
            /\ calls[j].result.payload = ("cartId" :> "s2")
            /\ calls[k].kind = "undo"
            /\ calls[k].context = ("cartId" :> "s2")

\* the four outcomes of a strategy call, read off the result it returned
SucceededOutcome(e) ==
    /\ ret[e].success
    /\ ret[e].code = ""
    /\ ret[e].resumeToken = NoToken
    /\ states[e].currentIndex = Len(states[e].strategy)

PausedOutcome(e) ==
    /\ ~ret[e].success
    /\ ret[e].code = ""
    /\ ret[e].resumeToken \in DOMAIN pausedExecutions
    /\ pausedExecutions[ret[e].resumeToken] = e

FailedOutcome(e) ==
    /\ ~ret[e].success
    /\ ret[e].code # ""
    /\ ret[e].resumeToken = NoToken
    /\ ~ret[e].rolledBack

RolledBackOutcome(e) ==
    /\ ~ret[e].success
    /\ ret[e].code # ""
    /\ ret[e].resumeToken = NoToken
    /\ ret[e].rolledBack

\* the execution has a live resume token
Continuable(e) == \E t \in DOMAIN pausedExecutions : pausedExecutions[t] = e

\* C29: every executeStrategy or resumeStrategy call on a live execution
\* ends in exactly one of SUCCEEDED, PAUSED, FAILED and FAILED-ROLLED-BACK;
\* only a PAUSED execution can be continued, and an execution in a terminal
\* state has no live token.
C29_CallEndsInOneOfFourOutcomes ==
    \A e \in Execs :
        /\ pc[e] \in {"done", "paused", "threw"} =>
              Cardinality({o \in 1..4 :
                  \/ o = 1 /\ SucceededOutcome(e)
                  \/ o = 2 /\ PausedOutcome(e)
                  \/ o = 3 /\ FailedOutcome(e)
                  \/ o = 4 /\ RolledBackOutcome(e)}) = 1
        /\ pc[e] = "paused" <=> PausedOutcome(e)
        /\ Continuable(e) => pc[e] = "paused"

\* C30: on an engine that was constructed successfully, over a manifest that
\* does not change, no sequence of registerHandler, registerChecker and
\* execute calls produces a HANDLER_NOT_FOUND result: the registry keeps
\* holding the handler reference of every capability.
C30_NoHandlerNotFoundAfterConstruction ==
    constructed.status = "ok" =>
        /\ \A i \in 1..Len(capabilities) : capabilities[i].handlerRef \in handlerRegistry
        /\ \A i \in 1..Len(returned) : returned[i].type # "HANDLER_NOT_FOUND"

\* C30 witness: after handlers were registered on the constructed engine,
\* one of them under a new reference, a dispatch ran a capability's handler
\* and returned its success
C30_Witness ==
    /\ constructed.status = "ok"
    /\ "spare" \in handlerRegistry
    /\ checkers # {}
    /\ HandlerInvoked
    /\ dispatch.pc = "returned"
    /\ returned[1].success

\* the precondition a step of the call turns to: the first one when the
\* call starts with a valid intent, the next one when the awaited checker
\* returned true; 0 when the step turns to none
TurnsTo ==
    IF dispatch.pc = "idle" /\ dispatch'.pc # "idle" /\ Len(strategyValidate(dispatch'.intent)) = 0
    THEN 1
    ELSE IF /\ dispatch.pc = "checking"
            /\ invocations' # invocations
            /\ invocations'[Len(invocations)].outcome = "true"
    THEN dispatch.k + 1
    ELSE 0

\* C31: a precondition whose checker is not registered, or whose checker
\* throws, is a failed precondition: it is not skipped and nothing is
\* thrown; the dispatch returns PRECONDITION_FAILED with that check's
\* message, without invoking a further checker or the handler.
C31_UnresolvedOrThrowingCheckerFails ==
    [][LET pre == Preconditions(Manifest[dispatch'.intent.capabilityId])
           n == Len(invocations)
       IN  /\ (/\ TurnsTo > 0
               /\ TurnsTo <= Len(pre)
               /\ pre[TurnsTo].checkerRef \notin checkers) =>
                  /\ dispatch'.pc = "returned"
                  /\ returned' = <<formatError("PRECONDITION_FAILED",
                                               Msg("Precondition checker not found", pre[TurnsTo].checkerRef))>>
                  /\ Len(invocations') = IF dispatch.pc = "idle" THEN 0 ELSE n
           /\ (/\ dispatch.pc = "checking"
               /\ invocations' # invocations
               /\ invocations'[n].outcome = "throws") =>
                  /\ dispatch'.pc = "returned"
                  /\ returned' = <<formatError("PRECONDITION_FAILED",
                                               Msg("Precondition check failed", pre[dispatch.k].checkerRef))>>
                  /\ Len(invocations') = n
      ]_vars

\* C31 witness: the first checker returned true, the second precondition's
\* checker is not registered, and the call returned the failure
C31_Witness ==
    /\ dispatch.pc = "returned"
    /\ Len(invocations) = 1
    /\ invocations[1].outcome = "true"
    /\ returned[1].message = Msg("Precondition checker not found", "check.2")
    /\ "check.3" \in checkers

\* C32: every single dispatch eventually returns a result: it waits only in
\* the handler/timer race, so a handler or precondition checker that never
\* completes cannot block it beyond the timeout.
C32_DispatchEventuallyReturns ==
    (dispatch.pc \in {"checking", "racing"}) ~> (dispatch.pc \in {"returned", "threw"})

C34_ArrayOrPrimitiveParametersRejected ==
    (/\ dispatch.pc # "idle"
     /\ dispatch.intent.shape = "object"
     /\ dispatch.intent.capabilityId # ""
     /\ dispatch.intent.parametersKind \in {"array", "primitive"}) =>
        /\ dispatch.pc = "returned"
        /\ invocations = <<>>
        /\ Len(returned) = 1
        /\ ~returned[1].success
        /\ returned[1].type = "VALIDATION_ERROR"

\* ------------------------------------------------------------------ C35
\* The validateAll calls examined: the parameter list of a capability of the
\* manifest against a provided object holding any values under any of the
\* names below.
ProvidedNames == {"itemId", "total", "cvv", "billingZip"}

ProvidedObjects == UNION {[names -> Values] : names \in SUBSET ProvidedNames}

ParameterLists == {Manifest[id].parameters : id \in DOMAIN Manifest}

ValidationInit ==
    /\ pausedExecutions = <<>>
    /\ states = [e \in Execs |-> NoState]
    /\ pc = [e \in Execs |-> "idle"]
    /\ frame = [e \in Execs |-> NoFrame]
    /\ ret = [e \in Execs |-> NoResult]
    /\ engineCalls = [e \in Execs |-> <<>>]
    /\ nextToken = 1
    /\ lastResume = NoResume
    /\ consumed = {}
    /\ capabilities = ManifestBindings
    /\ handlerRegistry = ManifestHandlers
    /\ constructed = validateHandlerBindings(ManifestBindings, ManifestHandlers)
    /\ validation \in {ValidateAllCall(paramDefs, providedParams, "called", ParameterValidationResult(<<>>)) :
                          paramDefs \in ParameterLists, providedParams \in ProvidedObjects}
    /\ checkers = {}
    /\ dispatch = NoDispatch
    /\ invocations = <<>>
    /\ now = 0
    /\ returned = <<>>

\* validateAll(paramDefs, providedParams) runs and returns
ValidateAllReturns ==
    /\ validation.pc = "called"
    /\ validation' = [validation EXCEPT
                        !.pc = "returned",
                        !.result = ParameterValidationResult(validateAll(validation.paramDefs, validation.providedParams))]
    /\ UNCHANGED <<capabilities, handlerRegistry, constructed>>
    /\ UNCHANGED orchestratorVars
    /\ UNCHANGED dispatchVars

ValidationNext == ValidateAllReturns

ValidationSpec == ValidationInit /\ [][ValidationNext]_vars

\* the number of errors the parameters before the i-th produce
RECURSIVE ErrorsBefore(_, _, _)
ErrorsBefore(paramDefs, m, i) ==
    IF i <= 1 THEN 0 ELSE ErrorsBefore(paramDefs, m, i - 1) + Len(validate(paramDefs[i - 1], m))

TimeoutResult == ExecutionResult(FALSE, "TIMEOUT", Msg("Handler execution timeout after ms", ""), EmptyMap)

\* the log once its pending (last) call has returned TIMEOUT, its handler
\* still running
SettleAbandoned(calls) ==
    [calls EXCEPT ![Len(calls)].result = TimeoutResult, ![Len(calls)].abandoned = "running"]

\* engine.execute of a step returns TIMEOUT to executeFromState: the intent
\* validated, the handler was invoked and the timer fired first
StepTimesOut(e) ==
    /\ pc[e] = "dispatch"
    /\ validateIntent(frame[e].intent) = <<>>
    /\ Apply(e, afterDispatch(states[e], frame[e].intent, TimeoutResult, nextToken), pausedExecutions,
             SettleAbandoned(engineCalls[e]))
    /\ lastResume' = NoResume
    /\ UNCHANGED consumed
    /\ UNCHANGED engineVars
    /\ UNCHANGED dispatchVars

\* engine.execute of an undo returns TIMEOUT to handleFailureWithRollback
UndoTimesOut(e) ==
    /\ pc[e] = "undo"
    /\ validateIntent(frame[e].intent) = <<>>
    /\ Apply(e, afterUndo(states[e], frame[e], TimeoutResult), pausedExecutions,
             SettleAbandoned(engineCalls[e]))
    /\ lastResume' = NoResume
    /\ UNCHANGED consumed
    /\ UNCHANGED engineVars
    /\ UNCHANGED dispatchVars

\* the handler of a call that returned TIMEOUT runs to completion and
\* applies its effect; nothing of the orchestrator observes it
AbandonedHandlerCompletes(e, k) ==
    /\ k \in 1..Len(engineCalls[e])
    /\ engineCalls[e][k].abandoned = "running"
    /\ engineCalls' = [engineCalls EXCEPT ![e][k].abandoned = "completed"]
    /\ lastResume' = NoResume
    /\ UNCHANGED <<pausedExecutions, states, pc, frame, ret, nextToken, consumed>>
    /\ UNCHANGED engineVars
    /\ UNCHANGED dispatchVars

\* the strategies submitted where dispatches may time out: one that runs
\* without pausing and one that pauses before its last step
TimeoutStrategies ==
    {<<AddItem1, AddItem2, LogEvent, Unknown>>,
     <<LogEvent, AddItem1, CheckoutCvv>>}

\* the options of the executions that can roll back
TransactionalOptions == {Options(TRUE, c) : c \in BOOLEAN}

TimeoutNext ==
    \/ \E strategy \in TimeoutStrategies, options \in TransactionalOptions : ExecuteStrategy(strategy, options)
    \/ \E resumeToken \in DOMAIN pausedExecutions, additionalParams \in ResumeInputs : ResumeStrategy(resumeToken, additionalParams)
    \/ \E resumeToken \in UnknownTokens : ResumeUnknown(resumeToken)
    \/ \E e \in Execs, result \in AllResults : StepReturns(e, result)
    \/ \E e \in Execs, undoResult \in AllResults : UndoReturns(e, undoResult)
    \/ \E e \in Execs : StepTimesOut(e)
    \/ \E e \in Execs : UndoTimesOut(e)
    \/ \E e \in Execs : \E k \in DOMAIN engineCalls[e] : AbandonedHandlerCompletes(e, k)

TimeoutSpec == Init /\ [][TimeoutNext]_vars

\* C36: a step whose dispatch returned TIMEOUT is not in the ledger: the
\* ledger holds exactly the steps that returned success, every dispatch after
\* the timed-out one is the undo of a ledger entry, and so no undo is ever
\* dispatched for the timed-out step, whether or not its abandoned handler
\* has completed in the meantime.
C36_TimedOutStepIsNeverUndone ==
    \A e \in Execs :
        LET calls == engineCalls[e]
            ledger == states[e].executedSteps
            done == Completed(e)
        IN \A k \in 1..Len(calls) :
            (calls[k].kind = "step" /\ calls[k].result = TimeoutResult) =>
                /\ calls[k].abandoned \in {"running", "completed"}
                /\ Len(ledger) = Len(done)
                /\ \A j \in 1..Len(ledger) :
                      /\ ledger[j].result.success
                      /\ ledger[j].intent = done[j].intent
                /\ \A u \in (k + 1)..Len(calls) :
                      /\ calls[u].kind = "undo"
                      /\ calls[u].index + 1 \in 1..Len(ledger)
                      /\ calls[u].intent = undoIntentOf(ledger[calls[u].index + 1])
                /\ Len(UndoCalls(e)) <= Len(done)

\* a rollback that is over: the second step timed out, its handler completed
\* afterwards, the first step was undone and nothing else was dispatched
C36_Witness ==
    \E e \in Execs :
        /\ RolledBack(e)
        /\ Len(engineCalls[e]) = 3
        /\ engineCalls[e][2].kind = "step"
        /\ engineCalls[e][2].result = TimeoutResult
        /\ engineCalls[e][2].abandoned = "completed"
        /\ DeclaresUndo(engineCalls[e][2])
        /\ engineCalls[e][3].kind = "undo"
        /\ engineCalls[e][3].intent.parameters # engineCalls[e][2].intent.parameters

\* ------------------------------------------------------------------ C37
\* C37: of the resumeStrategy calls issued with one token, the first to run
\* hits and every other one, also one issued while the first still awaits
\* its dispatch, misses: a call hits only a token no call has hit before and
\* takes it out of the table in the same step; a call with a token already
\* hit returns INVALID_RESUME_TOKEN and dispatches nothing; and the parked
\* step is dispatched to the engine at most once.
C37_ConcurrentResumesHitOnce ==
    [][/\ lastResume'.hit =>
            /\ lastResume'.token \in DOMAIN pausedExecutions
            /\ lastResume'.token \notin consumed
            /\ lastResume'.token \in consumed'
            /\ lastResume'.token \notin DOMAIN pausedExecutions'
       /\ lastResume'.spent =>
            /\ ~lastResume'.hit
            /\ lastResume'.code = "INVALID_RESUME_TOKEN"
            /\ engineCalls' = engineCalls
            /\ pc' = pc
       /\ \A e \in Execs : \A k, l \in 1..Len(engineCalls'[e]) :
            (/\ engineCalls'[e][k].kind = "step"
             /\ engineCalls'[e][l].kind = "step"
             /\ engineCalls'[e][k].index = engineCalls'[e][l].index
             /\ engineCalls'[e][k].index \in DOMAIN states'[e].collectedParameters) => k = l]_vars

\* the second call with the token has just missed while the call that hit
\* still awaits the dispatch of the parked step
C37_Witness ==
    /\ lastResume.spent
    /\ ~lastResume.hit
    /\ lastResume.code = "INVALID_RESUME_TOKEN"
    /\ \E e \in Execs :
        /\ pc[e] = "dispatch"
        /\ states[e].currentIndex \in DOMAIN states[e].collectedParameters
        /\ engineCalls[e][Len(engineCalls[e])].kind = "step"
        /\ engineCalls[e][Len(engineCalls[e])].index = states[e].currentIndex
        /\ engineCalls[e][Len(engineCalls[e])].result = Pending

\* ------------------------------------------------------------------ C38
\* Steps that lack an upfront-required parameter (total) as well as required
\* on-demand ones (cvv, billingZip).
CheckoutNoTotal == Intent("checkout", EmptyMap)
CheckoutCvvNoTotal == Intent("checkout", ("cvv" :> "s1"))

\* the strategies submitted with such steps, first or after a completed step
CollectionStrategies ==
    {<<CheckoutNoTotal>>,
     <<AddItem1, CheckoutNoTotal>>,
     <<AddItem1, CheckoutCvvNoTotal>>}

CollectionNext ==
    \/ \E strategy \in CollectionStrategies, options \in AllOptions : ExecuteStrategy(strategy, options)
    \/ \E resumeToken \in DOMAIN pausedExecutions, additionalParams \in ResumeInputs : ResumeStrategy(resumeToken, additionalParams)
    \/ \E resumeToken \in UnknownTokens : ResumeUnknown(resumeToken)
    \/ \E e \in Execs, result \in AllResults : StepReturns(e, result)
    \/ \E e \in Execs, undoResult \in AllResults : UndoReturns(e, undoResult)

CollectionSpec == Init /\ [][CollectionNext]_vars

\* the required on-demand parameters of the capability that the intent does
\* not provide
LacksOnDemand(intent) ==
    \E x \in 1..Len(getCapability(intent.capabilityId).parameters) :
        LET q == getCapability(intent.capabilityId).parameters[x]
        IN q.collectionApproach = "on-demand" /\ q.isRequired /\ IsAbsent(intent.parameters, q.name)

\* the upfront required parameters of the capability that the intent does
\* not provide
LacksUpfront(intent) ==
    \E x \in 1..Len(getCapability(intent.capabilityId).parameters) :
        LET q == getCapability(intent.capabilityId).parameters[x]
        IN q.collectionApproach # "on-demand" /\ q.isRequired /\ IsAbsent(intent.parameters, q.name)

\* C38: a step that lacks a required on-demand parameter and an upfront
\* required one is not dispatched (and so not validated) before the caller
\* has resumed with values for that step: every dispatch of it comes after a
\* resume that hit and stored values for its index, it carries every required
\* on-demand parameter, and what the engine answers is the VALIDATION_ERROR
\* for the missing upfront parameter; until then the execution is paused or
\* has not reached the step.
C38_PauseComesBeforeValidation ==
    \A e \in Execs : \A i \in 1..Len(states[e].strategy) :
        LET intent == states[e].strategy[i] IN
        (intent.capabilityId \in DOMAIN Manifest /\ LacksOnDemand(intent) /\ LacksUpfront(intent)) =>
            /\ \A k \in 1..Len(engineCalls[e]) :
                  (engineCalls[e][k].kind = "step" /\ engineCalls[e][k].index = i - 1) =>
                      /\ consumed # {}
                      /\ (i - 1) \in DOMAIN states[e].collectedParameters
                      /\ ~LacksOnDemand(engineCalls[e][k].intent)
                      /\ engineCalls[e][k].result \in
                            {Pending, Thrown,
                             ExecutionResult(FALSE, "VALIDATION_ERROR", validateIntent(engineCalls[e][k].intent)[1], EmptyMap)}
            /\ (states[e].currentIndex = i - 1 /\ (i - 1) \notin DOMAIN states[e].collectedParameters) =>
                  /\ pc[e] = "paused"
                  /\ ret[e].kind = "paused"
                  /\ Len(ret[e].requiredInputs) > 0

\* the step first paused for cvv and billingZip and, resumed with both,
\* failed validation for the missing total
C38_Witness ==
    \E e \in Execs :
        /\ pc[e] = "done"
        /\ ret[e].kind = "failed"
        /\ ret[e].code = "VALIDATION_ERROR"
        /\ ret[e].message = Msg("is required", "total")
        /\ states[e].strategy[states[e].currentIndex + 1] = CheckoutNoTotal
        /\ states[e].currentIndex \in DOMAIN states[e].collectedParameters
        /\ consumed # {}

\* ------------------------------------------------------------------ C39
\* the results of an execution that are successes, oldest first
SuccessfulResults(st) == SelectSeq(st.results, LAMBDA r : r.success)

\* C39: after every step, an execution that is parked or awaits the dispatch
\* of a step has as many recorded results as its current step index; the
\* index of a started execution never decreases; and the ledger is, entry by
\* entry, the successful ones among the recorded results in their order,
\* each with the intent that was dispatched for it.
C39_IndexCountsResults ==
    [][\A e \in Execs :
          /\ (pc'[e] \in {"paused", "dispatch"}) =>
                states'[e].currentIndex = Len(states'[e].results)
          /\ (pc[e] # "idle") => states'[e].currentIndex >= states[e].currentIndex
          /\ Len(states'[e].executedSteps) = Len(SuccessfulResults(states'[e]))
          /\ \A j \in 1..Len(states'[e].executedSteps) :
                /\ states'[e].executedSteps[j].result = SuccessfulResults(states'[e])[j]
                /\ states'[e].executedSteps[j].intent = Completed(e)'[j].intent]_vars

\* an execution parked at its third step after one skipped and one completed
\* step: two results, one ledger entry
C39_Witness ==
    \E e \in Execs :
        /\ pc[e] = "paused"
        /\ states[e].currentIndex = 2
        /\ Len(states[e].results) = 2
        /\ ~states[e].results[1].success
        /\ Len(states[e].executedSteps) = 1

\* ------------------------------------------------------------------ C40
\* The caller awaits each call before it issues the next: executeStrategy and
\* resumeStrategy start only while no call awaits a dispatch.  Executions
\* still overlap: one can be parked while another runs.
NoCallInFlight == \A x \in Execs : pc[x] \notin {"dispatch", "undo"}

SequentialNext ==
    \/ /\ NoCallInFlight
       /\ \E strategy \in Strategies, options \in AllOptions : ExecuteStrategy(strategy, options)
    \/ /\ NoCallInFlight
       /\ \E resumeToken \in DOMAIN pausedExecutions, additionalParams \in ResumeInputs : ResumeStrategy(resumeToken, additionalParams)
    \/ \E resumeToken \in UnknownTokens : ResumeUnknown(resumeToken)
    \/ \E e \in Execs, result \in AllResults : StepReturns(e, result)
    \/ \E e \in Execs, undoResult \in AllResults : UndoReturns(e, undoResult)

SequentialSpec == Init /\ [][SequentialNext]_vars

\* One strategy execution (the calls of different executions share nothing
\* but the parked-state table), started, paused and resumed as in Next.
TerminationNext ==
    \/ /\ \A x \in Execs : pc[x] = "idle"
       /\ \E strategy \in Strategies, options \in AllOptions : ExecuteStrategy(strategy, options)
    \/ \E resumeToken \in DOMAIN pausedExecutions, additionalParams \in ResumeInputs : ResumeStrategy(resumeToken, additionalParams)
    \/ \E resumeToken \in UnknownTokens : ResumeUnknown(resumeToken)
    \/ \E e \in Execs, result \in AllResults : StepReturns(e, result)
    \/ \E e \in Execs, undoResult \in AllResults : UndoReturns(e, undoResult)

\* The orchestrator where every engine dispatch comes back: a call that
\* awaits the dispatch of a step or of an undo is eventually given its
\* result (or its exception).
TerminationSpec ==
    /\ Init
    /\ [][TerminationNext]_vars
    /\ \A e \in Execs : WF_vars(\E result \in AllResults : StepReturns(e, result))
    /\ \A e \in Execs : WF_vars(\E undoResult \in AllResults : UndoReturns(e, undoResult))

\* C40: provided every engine dispatch returns, every executeStrategy and
\* resumeStrategy call ends (paused, finished, or with the dispatch's
\* exception): a call awaiting a dispatch always leads to a call that has
\* returned; and the work of a call is bounded, since no step index is
\* dispatched twice and no ledger entry is undone twice.
C40_CallsTerminate ==
    /\ [](\A e \in Execs :
            /\ \A k, l \in 1..Len(engineCalls[e]) :
                  (/\ engineCalls[e][k].kind = engineCalls[e][l].kind
                   /\ engineCalls[e][k].index = engineCalls[e][l].index) => k = l
            /\ \A k \in 1..Len(engineCalls[e]) :
                  /\ engineCalls[e][k].kind = "step" => engineCalls[e][k].index \in 0..(Len(states[e].strategy) - 1)
                  /\ engineCalls[e][k].kind = "undo" => engineCalls[e][k].index \in 0..(Len(states[e].executedSteps) - 1))
    /\ \A e \in Execs : (pc[e] \in {"dispatch", "undo"}) ~> (pc[e] \in {"paused", "done", "threw"})

\* a call that went through three step dispatches and two undo dispatches
\* and has returned
C40_Witness ==
    \E e \in Execs :
        /\ pc[e] = "done"
        /\ Len(StepCalls(e)) = 3
        /\ Len(UndoCalls(e)) = 2

====
